---------------------------- MODULE Spec2Model ----------------------------
(***************************************************************************)
(* Catenis API emulator: the ApiServer request matcher, the Signer         *)
(* (parseHttpRequestAuthentication / signHttpRequest), authenticateRequest *)
(* and the query comparison, as state machines.                            *)
(*                                                                         *)
(* Conventions of the model                                                *)
(*  - A JavaScript value that may be undefined or null is a record with a  *)
(*    tag field; strings are TLA+ strings.                                 *)
(*  - Times are whole seconds since 1970-01-01T00:00:00Z; the clock    *)
(*    also carries its millisecond part, which dayjs().millisecond(0)      *)
(*    drops.                                                               *)
(*  - SHA-256 and HMAC-SHA-256 are modelled as collision-free: a digest is *)
(*    the tuple of what was hashed.                                        *)
(***************************************************************************)
EXTENDS Integers, Sequences, FiniteSets, TLC

VARIABLES
    httpContext,        \* ApiServer._httpContext
    deviceCredentials,  \* ApiServer._deviceCredentials (Map deviceId -> secret)
    clock,              \* wall clock: [sec, ms]
    apiReq,             \* the API request in flight (or NoRequest)
    apiPc,              \* where its handler is: idle / reading / done / threw
    apiBody,            \* reqBody: what readData resolved with
    apiRes,             \* the responses written to res, in order
    apiTrace,           \* the checks the handler has evaluated, in order
    apiSeen,            \* what the handler read of the context before suspending
    q1, q2, qEqual,     \* areUrlsSearchEqual: the two queries and the result
    authCall,           \* authenticateRequest called on its own: the request,
                        \* the body, what was thrown inside and what it returned
    notifyContext,      \* WSNotificationServer._notifyContext
    apiListener,        \* ApiServer.server: listening / closing / closed
    cmdListener,        \* CommandServer.server: listening / closing / closed
    cmdReq,             \* the command request in flight (or NoCommand)
    cmdPc,              \* where its handler is
    cmdRes,             \* the responses written to its res, in order
    serverOn,           \* WSNotificationServer.serverOn
    channels,           \* the WSNotificationChannel objects, by connection
    deviceEventNotifyChannels,  \* WSNotificationServer: the channel index
    dispatchNotifyMsgTimeouts,  \* WSNotificationServer: the pending dispatches
    timers              \* the setTimeout timers of the pending dispatches

apiVars   == <<apiReq, apiPc, apiBody, apiRes, apiTrace, apiSeen>>
queryVars == <<q1, q2, qEqual>>
authVars  == <<authCall>>
cmdVars   == <<notifyContext, apiListener, cmdListener, cmdReq, cmdPc, cmdRes>>
wsVars    == <<serverOn, channels, deviceEventNotifyChannels,
               dispatchNotifyMsgTimeouts, timers>>
vars == <<httpContext, deviceCredentials, clock, apiVars, queryVars, authVars,
          cmdVars, wsVars>>

---------------------------------------------------------------------------
(* Calendar: what dayjs.utc(str, format, true) computes from the digit     *)
(* groups of a strictly parsed date string.                                *)

IsLeapYear(y) == (y % 4 = 0 /\ y % 100 # 0) \/ y % 400 = 0

DaysInMonth(y, m) ==
    CASE m \in {1, 3, 5, 7, 8, 10, 12} -> 31
      [] m \in {4, 6, 9, 11} -> 30
      [] m = 2 -> IF IsLeapYear(y) THEN 29 ELSE 28
      [] OTHER -> 0

\* Leap years before year y (proleptic Gregorian count).
LeapYearsBefore(y) == ((y - 1) \div 4) - ((y - 1) \div 100) + ((y - 1) \div 400)

\* Days from 1970-01-01 to the first day of year y.
DaysBeforeYear(y) == 365 * (y - 1970) + (LeapYearsBefore(y) - LeapYearsBefore(1970))

RECURSIVE DaysBeforeMonth(_, _)
DaysBeforeMonth(y, m) ==
    IF m <= 1 THEN 0 ELSE DaysInMonth(y, m - 1) + DaysBeforeMonth(y, m - 1)

\* Strict parsing: the parsed date formatted back must equal the input, so
\* every field has to be in its calendar range.
IsValidDate(y, m, d) ==
    /\ y >= 1970
    /\ m \in 1..12
    /\ d >= 1 /\ d <= DaysInMonth(y, m)

IsValidTime(h, mi, s) == h \in 0..23 /\ mi \in 0..59 /\ s \in 0..59

\* Day number of a calendar date (day 0 is 1970-01-01).
DayOf(y, m, d) == DaysBeforeYear(y) + DaysBeforeMonth(y, m) + (d - 1)

\* Epoch second of a calendar date and time of day (UTC).
SecondOf(y, m, d, h, mi, s) ==
    DayOf(y, m, d) * 86400 + h * 3600 + mi * 60 + s

\* The UTC calendar day an instant falls in (startOf('day') in UTC mode).
UtcDayOf(sec) == sec \div 86400

---------------------------------------------------------------------------
(* Signer: src/src/Authentication.js                                       *)

signVersionId == "CTN1"
signMethodId == "CTN1-HMAC-SHA256"
scopeRequest == "ctn1_request"
signValidDays == 7
allowedTimestampOffset == 300

\* The x-bcot-timestamp header: a string whose characters are 8 digits, 'T',
\* 6 digits, 'Z' (shape = TRUE, with the digit groups) or any other string.
TimestampStr(y, m, d, h, mi, s) ==
    [shape |-> TRUE, y |-> y, m |-> m, d |-> d, h |-> h, mi |-> mi, s |-> s]
TimestampGarbage ==
    [shape |-> FALSE, y |-> 0, m |-> 0, d |-> 0, h |-> 0, mi |-> 0, s |-> 0]

\* dayjs.utc(strTmstmp, 'YYYYMMDDTHHmmss[Z]', true).isValid()
TimestampIsValid(t) ==
    t.shape /\ IsValidDate(t.y, t.m, t.d) /\ IsValidTime(t.h, t.mi, t.s)

TimestampSecond(t) == SecondOf(t.y, t.m, t.d, t.h, t.mi, t.s)

\* An eight-character sign date: its digit groups when all eight are digits.
DateStr(y, m, d) == [digits |-> TRUE, y |-> y, m |-> m, d |-> d]
DateGarbage == [digits |-> FALSE, y |-> 0, m |-> 0, d |-> 0]

\* The authorization header, split at the places authRegex splits it.
AuthorizationStr(scheme, credKw, deviceId, signDate, scope, sigKw, signature) ==
    [scheme |-> scheme, credKw |-> credKw, deviceId |-> deviceId,
     signDate |-> signDate, scope |-> scope, sigKw |-> sigKw,
     signature |-> signature]

\* authRegex: ^CTN1-HMAC-SHA256 +(?:C|c)redential *= *(\w{20})/(\d{8})/
\*            ctn1_request *, *(?:S|s)ignature *= *([0-9a-fA-F]{64}) *$
authRegexMatches(a) ==
    /\ a.scheme = signMethodId
    /\ a.credKw \in {"Credential", "credential"}
    /\ Len(a.deviceId) = 20
    /\ a.signDate.digits
    /\ a.scope = scopeRequest
    /\ a.sigKw \in {"Signature", "signature"}
    /\ a.signature.hex64

\* hashData: hex SHA-256 of the data.
hashData(data) == <<"sha256", data>>

\* signData: HMAC-SHA-256 of the data under the key.
signData(data, secret) == <<"hmac-sha256", secret, data>>

\* A signature string: hex64 says it is 64 hex digits, upper that its letters
\* are upper case (digest('hex') yields lower case), mac the digest it spells.
SignatureStr(hex64, upper, mac) == [hex64 |-> hex64, upper |-> upper, mac |-> mac]

\* A request header: present or not, and its value.
Header(value) == [present |-> TRUE, value |-> value]

signHttpRequest(req, info) ==
    LET essentialHeaders ==
            <<"host", req.headers.host,
              IF req.headers.timestamp.present
              THEN <<"x-bcot-timestamp", req.headers.timestamp.value>>
              ELSE <<"", TimestampGarbage>> >>
        confReq == <<req.method, req.url, essentialHeaders, hashData(info.reqBody)>>
        scope == <<info.signDate, scopeRequest>>
        strToSign == <<signMethodId, info.timestamp, scope, hashData(confReq)>>
        dateKey == signData(info.signDate, <<signVersionId, info.apiAccessSecret>>)
        signKey == signData(scopeRequest, dateKey)
    IN  SignatureStr(TRUE, FALSE, signData(strToSign, signKey))

\* The value of a field that holds no signature (a failed parse).
NoSignature ==
    SignatureStr(FALSE, FALSE,
        signData(<<signMethodId, TimestampGarbage, <<DateGarbage, scopeRequest>>,
                   hashData(<<"", [pathname |-> "", search |-> <<>>],
                              <<"host", "", <<"", TimestampGarbage>> >>,
                              hashData("")>>)>>,
                 signData(scopeRequest, signData(DateGarbage, <<signVersionId, "">>))))

AbsentTimestamp == [present |-> FALSE, value |-> TimestampGarbage]
AbsentAuthorization ==
    [present |-> FALSE,
     value |-> AuthorizationStr("", "", "", DateGarbage, "", "", NoSignature)]

NowTruncated(c) == c.sec    \* dayjs().millisecond(0)

AuthenticationError(code) ==
    [ok |-> FALSE, code |-> code, timestamp |-> TimestampGarbage,
     deviceId |-> "", signDate |-> DateGarbage, signature |-> NoSignature]

\* The timestamp window with its two ends left out.
TimestampInWindow_Exclusive(tmstmp, now) ==
    /\ tmstmp > now - allowedTimestampOffset
    /\ tmstmp < now + allowedTimestampOffset

\* tmstmp.isBetween(now - 300 s, now + 300 s, null, '[]')
TimestampInWindow(tmstmp, now) ==
    /\ tmstmp >= now - allowedTimestampOffset
    /\ tmstmp <= now + allowedTimestampOffset

\* The sign-date window with its last day, signDate + 7 days, let in.
SignDateInWindow_LastDayIncluded(signDay, now) ==
    /\ UtcDayOf(now) >= signDay
    /\ UtcDayOf(now) <= signDay + signValidDays

\* now.utc().isBetween(signDate, signDate.add(7, 'days'), 'day', '[)'):
\* !now.isBefore(signDate, 'day') && now.isBefore(signDate + 7 d, 'day'),
\* where x.isBefore(y, 'day') is x.endOf('day') < y and signDate is a
\* midnight.
SignDateInWindow(signDay, now) ==
    /\ ~(UtcDayOf(now) * 86400 + 86399 < signDay * 86400)
    /\ UtcDayOf(now) * 86400 + 86399 < (signDay + signValidDays) * 86400

\* As parseHttpRequestAuthentication, but the authorization is matched
\* before the timestamp is looked at.
parseHttpRequestAuthentication_AuthorizationFirst(headers, c) ==
    LET now == NowTruncated(c)
        strTmstmp == headers.timestamp.value
        auth == headers.authorization.value
    IN  IF ~headers.timestamp.present \/ ~headers.authorization.present
        THEN AuthenticationError("parse_err_missing_headers")
        ELSE IF ~authRegexMatches(auth)
        THEN AuthenticationError("parse_err_malformed_auth_header")
        ELSE IF ~TimestampIsValid(strTmstmp)
        THEN AuthenticationError("parse_err_malformed_timestamp")
        ELSE IF ~TimestampInWindow(TimestampSecond(strTmstmp), now)
        THEN AuthenticationError("parse_err_timestamp_out_of_bounds")
        ELSE IF ~IsValidDate(auth.signDate.y, auth.signDate.m, auth.signDate.d)
        THEN AuthenticationError("parse_err_malformed_sign_date")
        ELSE IF ~SignDateInWindow(
                    DayOf(auth.signDate.y, auth.signDate.m, auth.signDate.d), now)
        THEN AuthenticationError("parse_err_sign_date_out_of_bounds")
        ELSE [ok |-> TRUE, code |-> "", timestamp |-> strTmstmp,
              deviceId |-> auth.deviceId, signDate |-> auth.signDate,
              signature |-> auth.signature]

parseHttpRequestAuthentication(headers, c) ==
    LET now == NowTruncated(c)
        strTmstmp == headers.timestamp.value
        auth == headers.authorization.value
    IN  IF ~headers.timestamp.present \/ ~headers.authorization.present
        THEN AuthenticationError("parse_err_missing_headers")
        ELSE IF ~TimestampIsValid(strTmstmp)
        THEN AuthenticationError("parse_err_malformed_timestamp")
        ELSE IF ~TimestampInWindow(TimestampSecond(strTmstmp), now)
        THEN AuthenticationError("parse_err_timestamp_out_of_bounds")
        ELSE IF ~authRegexMatches(auth)
        THEN AuthenticationError("parse_err_malformed_auth_header")
        ELSE IF ~IsValidDate(auth.signDate.y, auth.signDate.m, auth.signDate.d)
        THEN AuthenticationError("parse_err_malformed_sign_date")
        ELSE IF ~SignDateInWindow(
                    DayOf(auth.signDate.y, auth.signDate.m, auth.signDate.d), now)
        THEN AuthenticationError("parse_err_sign_date_out_of_bounds")
        ELSE [ok |-> TRUE, code |-> "", timestamp |-> strTmstmp,
              deviceId |-> auth.deviceId, signDate |-> auth.signDate,
              signature |-> auth.signature]

---------------------------------------------------------------------------
(* ApiServer.authenticateRequest: src/src/ApiServer.js                     *)

ErrorResponseInfo(code, message) ==
    [failed |-> TRUE, deviceId |-> "", code |-> code, message |-> message]

Authenticated(deviceId) ==
    [failed |-> FALSE, deviceId |-> deviceId, code |-> 0, message |-> ""]

\* An exception caught by authenticateRequest: an AuthenticationError with
\* its code, or any other error.
Thrown(isAuthenticationError, code) ==
    [isAuthenticationError |-> isAuthenticationError, code |-> code]

\* The catch block of authenticateRequest.
authErrorResponse(err) ==
    IF err.isAuthenticationError
    THEN CASE err.code = "parse_err_missing_headers" ->
                ErrorResponseInfo(401, "Authorization failed; missing required HTTP headers")
           [] err.code = "parse_err_malformed_timestamp" ->
                ErrorResponseInfo(401, "Authorization failed; timestamp not well formed")
           [] err.code = "parse_err_timestamp_out_of_bounds" ->
                ErrorResponseInfo(401, "Authorization failed; timestamp not within acceptable time variation")
           [] err.code = "parse_err_malformed_auth_header" ->
                ErrorResponseInfo(401, "Authorization failed; authorization value not well formed")
           [] err.code = "parse_err_malformed_sign_date" ->
                ErrorResponseInfo(401, "Authorization failed; signature date not well formed")
           [] err.code = "parse_err_sign_date_out_of_bounds" ->
                ErrorResponseInfo(401, "Authorization failed; signature date out of bounds")
           [] OTHER -> ErrorResponseInfo(500, "Internal server error")
    ELSE ErrorResponseInfo(500, "Internal server error")

\* reqBody as passed by the caller: undefined, or the bytes read.
UndefinedBody == [defined |-> FALSE, bytes |-> ""]
BodyRead(bytes) == [defined |-> TRUE, bytes |-> bytes]

\* The try block without the comparison of the signatures.
authenticateParsed_AnySignature(req, reqBody, creds, authData) ==
    IF authData.deviceId \notin DOMAIN creds
    THEN ErrorResponseInfo(401, "Authorization failed; invalid device or signature")
    ELSE Authenticated(authData.deviceId)

\* The try block of authenticateRequest, given what the parse returned.
authenticateParsed(req, reqBody, creds, authData) ==
    IF authData.deviceId \notin DOMAIN creds
    THEN ErrorResponseInfo(401, "Authorization failed; invalid device or signature")
    ELSE LET reqSignature ==
                 signHttpRequest(req,
                     [timestamp |-> authData.timestamp,
                      signDate |-> authData.signDate,
                      apiAccessSecret |-> creds[authData.deviceId],
                      reqBody |-> IF reqBody.defined THEN reqBody.bytes ELSE ""])
         IN  IF reqSignature # authData.signature
             THEN ErrorResponseInfo(401, "Authorization failed; invalid device or signature")
             ELSE Authenticated(authData.deviceId)

authenticateRequest(req, reqBody, creds, c) ==
    LET authData == parseHttpRequestAuthentication(req.headers, c)
    IN  IF authData.ok
        THEN authenticateParsed(req, reqBody, creds, authData)
        ELSE authErrorResponse(Thrown(TRUE, authData.code))

---------------------------------------------------------------------------
(* Query comparison: src/src/ApiServer.js, areUrlsSearchEqual              *)
(* A URL's searchParams is the sequence of its <<name, value>> pairs, in   *)
(* the order of the query string; a value n stands for the one-character   *)
(* string of the digit n, so that sort() orders values as it orders the    *)
(* strings.                                                                *)

\* URLSearchParams.keys(), has(), getAll()
SearchKeys(sp) == [i \in 1..Len(sp) |-> sp[i][1]]
SearchHas(sp, k) == \E i \in 1..Len(sp) : sp[i][1] = k
RECURSIVE SearchGetAll(_, _)
SearchGetAll(sp, k) ==
    IF sp = <<>> THEN <<>>
    ELSE IF Head(sp)[1] = k
         THEN <<Head(sp)[2]>> \o SearchGetAll(Tail(sp), k)
         ELSE SearchGetAll(Tail(sp), k)

\* Array.prototype.sort(): ascending order.
RECURSIVE SortInsert(_, _)
SortInsert(x, a) ==
    IF a = <<>> THEN <<x>>
    ELSE IF x <= Head(a) THEN <<x>> \o a
         ELSE <<Head(a)>> \o SortInsert(x, Tail(a))
RECURSIVE ArraySort(_)
ArraySort(a) == IF a = <<>> THEN <<>> ELSE SortInsert(Head(a), ArraySort(Tail(a)))

\* areArraysEqual without its sort: the arrays are compared position by position.
areArraysEqual_Unsorted(a1, a2) ==
    /\ Len(a1) = Len(a2)
    /\ \A i \in 1..Len(a1) : a1[i] = a2[i]

areArraysEqual(a1, a2) ==
    IF Len(a1) = Len(a2)
    THEN IF Len(a1) = 1
         THEN a1[1] = a2[1]
         ELSE LET a3 == ArraySort(a1)
                  a4 == ArraySort(a2)
              IN  \A i \in 1..Len(a3) : a3[i] = a4[i]
    ELSE FALSE

areUrlsSearchEqual(sp1, sp2) ==
    LET keys1 == SearchKeys(sp1)
        keys2 == SearchKeys(sp2)
    IN  IF Len(keys1) = Len(keys2)
        THEN LET uniqKeys == {keys1[i] : i \in 1..Len(keys1)}
             IN  \A k \in uniqKeys :
                     /\ SearchHas(sp2, k)
                     /\ areArraysEqual(SearchGetAll(sp2, k), SearchGetAll(sp1, k))
        ELSE FALSE

---------------------------------------------------------------------------
(* JSON texts and values                                                   *)

JsonObject(key, str) == [type |-> "object", key |-> key, str |-> str, num |-> 0, bool |-> FALSE]
JsonString(str) == [type |-> "string", key |-> "", str |-> str, num |-> 0, bool |-> FALSE]
JsonNumber(num) == [type |-> "number", key |-> "", str |-> "", num |-> num, bool |-> FALSE]
JsonBoolean(bool) == [type |-> "boolean", key |-> "", str |-> "", num |-> 0, bool |-> bool]
JsonNull == [type |-> "null", key |-> "", str |-> "", num |-> 0, bool |-> FALSE]
\* The JavaScript value undefined, where a JSON value is expected.
JsUndefined == [type |-> "undefined", key |-> "", str |-> "", num |-> 0, bool |-> FALSE]

\* JSON.parse on the texts the model uses: the value, or a SyntaxError.
JSONparse(text) ==
    CASE text = "{\"message\":\"Test message #1\"}" ->
            [ok |-> TRUE, value |-> JsonObject("message", "Test message #1")]
      [] text = "{\"message\":\"WRONG\"}" ->
            [ok |-> TRUE, value |-> JsonObject("message", "WRONG")]
      [] text = "{\"messageId\":\"mdx8vuCGWdb2TFeWFZd6\"}" ->
            [ok |-> TRUE, value |-> JsonObject("messageId", "mdx8vuCGWdb2TFeWFZd6")]
      [] text = "{ \"messageId\": \"mdx8vuCGWdb2TFeWFZd6\" }" ->
            [ok |-> TRUE, value |-> JsonObject("messageId", "mdx8vuCGWdb2TFeWFZd6")]
      [] text = "0" -> [ok |-> TRUE, value |-> JsonNumber(0)]
      [] text = "1" -> [ok |-> TRUE, value |-> JsonNumber(1)]
      [] text = "false" -> [ok |-> TRUE, value |-> JsonBoolean(FALSE)]
      [] text = "true" -> [ok |-> TRUE, value |-> JsonBoolean(TRUE)]
      [] text = "\"\"" -> [ok |-> TRUE, value |-> JsonString("")]
      [] text = "\"done\"" -> [ok |-> TRUE, value |-> JsonString("done")]
      [] text = "null" -> [ok |-> TRUE, value |-> JsonNull]
      [] OTHER -> [ok |-> FALSE, value |-> JsUndefined]

\* JavaScript truthiness of a value: if (data) ...
Truthy(v) ==
    CASE v.type = "object" -> TRUE
      [] v.type = "string" -> v.str # ""
      [] v.type = "number" -> v.num # 0
      [] v.type = "boolean" -> v.bool
      [] OTHER -> FALSE

---------------------------------------------------------------------------
(* HttpContext documents and their validation: src/src/ApiServer.js        *)

\* An optional string / boolean property: undefined, null or a value.
Undefined == [tag |-> "undefined", str |-> "", bool |-> FALSE]
Null == [tag |-> "null", str |-> "", bool |-> FALSE]
Str(s) == [tag |-> "string", str |-> s, bool |-> FALSE]
Bool(b) == [tag |-> "boolean", str |-> "", bool |-> b]

\* apiMethodPath: whether new URL(d, 'http://host') accepts it, whether it
\* starts with '/', the path after that, and its query.
ApiMethodPath(parseable, leadingSlash, path, search) ==
    [parseable |-> parseable, leadingSlash |-> leadingSlash, path |-> path,
     search |-> search]

\* requiredResponse: undefined, null, {data}, {statusCode, errorMessage}, or an
\* object of another shape.
NoResponse(tag) == [tag |-> tag, data |-> "", statusCode |-> 0, errorMessage |-> ""]
SuccessResponse(data) ==
    [tag |-> "success", data |-> data, statusCode |-> 0, errorMessage |-> ""]
ErrorResponse(statusCode, errorMessage) ==
    [tag |-> "error", data |-> "", statusCode |-> statusCode,
     errorMessage |-> errorMessage]

HttpContext(httpMethod, apiMethodPath, data, authenticate, requiredResponse) ==
    [expectedRequest |->
        [httpMethod |-> httpMethod, apiMethodPath |-> apiMethodPath,
         data |-> data, authenticate |-> authenticate],
     requiredResponse |-> requiredResponse]

\* this._httpContext before any installation.
NoHttpContext ==
    [installed |-> FALSE,
     value |-> HttpContext("", ApiMethodPath(FALSE, FALSE, "", <<>>), Undefined,
                           Undefined, NoResponse("undefined"))]
Installed(ctx) == [installed |-> TRUE, value |-> ctx]

httpMethodTypeDef(d) == d = "GET" \/ d = "POST"
httpPathTypeDef(d) == d.parseable
jsonDataTypeDef(d) ==
    LET p == JSONparse(d) IN p.ok /\ p.value # JsonNull

\* Maybe T: undefined, null or a T.
MaybeJsonData(d) ==
    d.tag \in {"undefined", "null"} \/ (d.tag = "string" /\ jsonDataTypeDef(d.str))
MaybeBoolean(d) == d.tag \in {"undefined", "null", "boolean"}

isValidHttpContext(data) ==
    /\ httpMethodTypeDef(data.expectedRequest.httpMethod)
    /\ httpPathTypeDef(data.expectedRequest.apiMethodPath)
    /\ MaybeJsonData(data.expectedRequest.data)
    /\ MaybeBoolean(data.expectedRequest.authenticate)
    /\ \/ data.requiredResponse.tag \in {"undefined", "null"}
       \/ /\ data.requiredResponse.tag = "success"
          /\ jsonDataTypeDef(data.requiredResponse.data)
       \/ data.requiredResponse.tag = "error"

---------------------------------------------------------------------------
(* Requests and responses of the API server                                *)

apiVersion == "0.13"
apiBasePath == "/api/" \o apiVersion \o "/"

\* An incoming request. url is req.url (pathname and query pairs, in the order
\* sent); chunks is the body as it arrives, chunk by chunk.
HttpRequest(method, url, headers, chunks) ==
    [method |-> method, url |-> url, headers |-> headers, chunks |-> chunks]

Url(pathname, search) == [pathname |-> pathname, search |-> search]

NoMessage == [text |-> "", expected |-> "", received |-> ""]
Message(text) == [text |-> text, expected |-> "", received |-> ""]
Diagnostic(text, expected, received) ==
    [text |-> text, expected |-> expected, received |-> received]

\* What res.writeHead / res.end put on the wire: the status code and the body
\* (absent, or the JSON envelope).
Response(statusCode, body) == [statusCode |-> statusCode, body |-> body]
EmptyBody == [present |-> FALSE, status |-> "", message |-> NoMessage, data |-> JsUndefined]
SuccessEnvelope(data) ==
    [present |-> TRUE, status |-> "success", message |-> NoMessage, data |-> data]
ErrorEnvelope(message) ==
    [present |-> TRUE, status |-> "error", message |-> message, data |-> JsUndefined]

\* res.writeHead(statusCode, ...) throws a RangeError for a status code
\* outside 100..999.
writeHeadThrows(statusCode) == statusCode < 100 \/ statusCode > 999

\* The outcome of a send*Response call: the responses written (none when
\* writeHead threw).
Sent(response) == [threw |-> FALSE, written |-> <<response>>]
Threw == [threw |-> TRUE, written |-> <<>>]

sendSuccessResponse(data) ==
    IF Truthy(data)
    THEN Sent(Response(200, SuccessEnvelope(data)))
    ELSE Sent(Response(200, EmptyBody))

sendErrorResponse(statusCode, errorMessage) ==
    IF writeHeadThrows(statusCode)
    THEN Threw
    ELSE Sent(Response(statusCode, ErrorEnvelope(errorMessage)))

sendCORSPreflightResponse == Sent(Response(204, EmptyBody))

hasJSONContentType(req) ==
    /\ req.headers.contentType.present
    /\ req.headers.contentType.value \in
            {"application/json", "application/json; charset=utf-8"}

isCORSPreflightRequest(req) == req.method = "OPTIONS" /\ req.headers.preflight

\* readData resolves on the first 'readable' event with the chunks that have
\* arrived by then: the first n of them (n >= 1 unless the body is empty).
RECURSIVE Concat(_)
Concat(chunks) == IF chunks = <<>> THEN "" ELSE Head(chunks) \o Concat(Tail(chunks))
readData(req, n) == Concat(SubSeq(req.chunks, 1, n))
ReadableChunks(req) == IF req.chunks = <<>> THEN {0} ELSE 1..Len(req.chunks)

\* Formatting of a query for the diagnostics (URL.search).
DigitStr(n) ==
    CASE n = 0 -> "0" [] n = 1 -> "1" [] n = 2 -> "2" [] n = 3 -> "3"
      [] n = 4 -> "4" [] n = 5 -> "5" [] n = 6 -> "6" [] n = 7 -> "7"
      [] n = 8 -> "8" [] OTHER -> "9"
RECURSIVE SearchParamsStr(_)
SearchParamsStr(sp) ==
    IF sp = <<>> THEN ""
    ELSE Head(sp)[1] \o "=" \o DigitStr(Head(sp)[2])
         \o (IF Tail(sp) = <<>> THEN "" ELSE "&" \o SearchParamsStr(Tail(sp)))
SearchStr(sp) == IF sp = <<>> THEN "" ELSE "?" \o SearchParamsStr(sp)

\* new URL(apiMethodPath without its leading '/', base path on http://host)
expectedUrlOf(apiMethodPath) ==
    Url(apiBasePath \o apiMethodPath.path, apiMethodPath.search)

---------------------------------------------------------------------------
(* The request handler of ApiServer.start: src/src/ApiServer.js            *)
(* The handler runs without interruption up to `await readData(req)` and   *)
(* again from there to its end. An outcome is where the handler stands     *)
(* (reading / done / threw), the responses it wrote and the checks it      *)
(* evaluated, in order.                                                    *)
(* ctx.requiredResponse.errorMessage and .data read as undefined when the  *)
(* variant has no such property; the model keeps "" there.                 *)

Outcome(pc, written, trace) == [pc |-> pc, written |-> written, trace |-> trace]
Finished(sent, trace) ==
    Outcome(IF sent.threw THEN "threw" ELSE "done", sent.written, trace)

\* if (this._httpContext.requiredResponse) ... else sendSuccessResponse(req, res)
respond(ctx) ==
    LET requiredResponse == ctx.requiredResponse
    IN  IF requiredResponse.tag \notin {"undefined", "null"}
        THEN IF requiredResponse.errorMessage # ""
             THEN sendErrorResponse(requiredResponse.statusCode,
                                    Message(requiredResponse.errorMessage))
             ELSE \* JSON.parse(requiredResponse.data): data is undefined in the
                  \* error variant, and JSON.parse(undefined) throws.
                  IF requiredResponse.tag # "success"
                     \/ ~JSONparse(requiredResponse.data).ok
                  THEN Threw
                  ELSE sendSuccessResponse(JSONparse(requiredResponse.data).value)
        ELSE sendSuccessResponse(JsUndefined)

\* expectedRequest.authenticate === true || ... === undefined
mustAuthenticate(ctx) ==
    \/ ctx.expectedRequest.authenticate = Bool(TRUE)
    \/ ctx.expectedRequest.authenticate = Undefined

\* From the authentication step to the end of the handler.
authenticateAndRespond(req, ctx, reqBody, creds, c, trace) ==
    IF mustAuthenticate(ctx)
    THEN LET authResult == authenticateRequest(req, reqBody, creds, c)
         IN  IF authResult.failed
             THEN Finished(sendErrorResponse(authResult.code, Message(authResult.message)),
                           trace \o <<"authenticate">>)
             ELSE Finished(respond(ctx), trace \o <<"authenticate", "respond">>)
    ELSE Finished(respond(ctx), trace \o <<"respond">>)

\* As handlerResume, but an empty body is checked like any other.
handlerResume_EmptyChecked(req, ctx, bytes, creds, c, trace) ==
    IF ~hasJSONContentType(req)
    THEN Finished(sendErrorResponse(500,
             Diagnostic("Inconsistent content type", "application/json",
                        IF req.headers.contentType.present
                        THEN req.headers.contentType.value ELSE "undefined")),
             trace \o <<"contentType">>)
    ELSE IF Str(bytes) # ctx.expectedRequest.data
    THEN Finished(sendErrorResponse(500,
             Diagnostic("Unexpected HTTP request body",
                        IF ctx.expectedRequest.data.tag = "string"
                        THEN ctx.expectedRequest.data.str
                        ELSE ctx.expectedRequest.data.tag,
                        bytes)),
             trace \o <<"contentType", "body">>)
    ELSE authenticateAndRespond(req, ctx, BodyRead(bytes), creds, c,
                                trace \o <<"contentType", "body">>)

\* As handlerResume, but authenticateRequest is called without the body.
handlerResume_BodyNotSigned(req, ctx, bytes, creds, c, trace) ==
    IF Len(bytes) > 0
    THEN IF ~hasJSONContentType(req)
         THEN Finished(sendErrorResponse(500,
                  Diagnostic("Inconsistent content type", "application/json",
                             IF req.headers.contentType.present
                             THEN req.headers.contentType.value ELSE "undefined")),
                  trace \o <<"contentType">>)
         ELSE IF Str(bytes) # ctx.expectedRequest.data
         THEN Finished(sendErrorResponse(500,
                  Diagnostic("Unexpected HTTP request body",
                             IF ctx.expectedRequest.data.tag = "string"
                             THEN ctx.expectedRequest.data.str
                             ELSE ctx.expectedRequest.data.tag,
                             bytes)),
                  trace \o <<"contentType", "body">>)
         ELSE authenticateAndRespond(req, ctx, UndefinedBody, creds, c,
                                     trace \o <<"contentType", "body">>)
    ELSE authenticateAndRespond(req, ctx, UndefinedBody, creds, c, trace)

\* The handler from the point where readData has resolved with bytes.
handlerResume(req, ctx, bytes, creds, c, trace) ==
    IF Len(bytes) > 0
    THEN IF ~hasJSONContentType(req)
         THEN Finished(sendErrorResponse(500,
                  Diagnostic("Inconsistent content type", "application/json",
                             IF req.headers.contentType.present
                             THEN req.headers.contentType.value ELSE "undefined")),
                  trace \o <<"contentType">>)
         ELSE IF Str(bytes) # ctx.expectedRequest.data
         THEN Finished(sendErrorResponse(500,
                  Diagnostic("Unexpected HTTP request body",
                             IF ctx.expectedRequest.data.tag = "string"
                             THEN ctx.expectedRequest.data.str
                             ELSE ctx.expectedRequest.data.tag,
                             bytes)),
                  trace \o <<"contentType", "body">>)
         ELSE authenticateAndRespond(req, ctx, BodyRead(bytes), creds, c,
                                     trace \o <<"contentType", "body">>)
    ELSE authenticateAndRespond(req, ctx, BodyRead(bytes), creds, c, trace)

\* The handler with its path check moved before its method check.
handlerStart_PathFirst(req, hc, creds, c) ==
    IF isCORSPreflightRequest(req)
    THEN Finished(sendCORSPreflightResponse, <<"preflight">>)
    ELSE IF ~hc.installed
    THEN Finished(sendErrorResponse(500, Message("Missing HTTP context")), <<"context">>)
    ELSE LET ctx == hc.value
             expectedUrl == expectedUrlOf(ctx.expectedRequest.apiMethodPath)
         IN  IF \/ req.url.pathname # expectedUrl.pathname
                \/ ~areUrlsSearchEqual(req.url.search, expectedUrl.search)
             THEN Finished(sendErrorResponse(500,
                      Diagnostic("Unexpected HTTP request path",
                                 expectedUrl.pathname \o SearchStr(expectedUrl.search),
                                 req.url.pathname \o SearchStr(req.url.search))),
                      <<"context", "path">>)
             ELSE IF req.method # ctx.expectedRequest.httpMethod
             THEN Finished(sendErrorResponse(500,
                      Diagnostic("Unexpected HTTP request method",
                                 ctx.expectedRequest.httpMethod, req.method)),
                      <<"context", "path", "method">>)
             ELSE IF ctx.expectedRequest.data.tag = "string"
                     /\ ctx.expectedRequest.data.str # ""
             THEN Outcome("reading", <<>>, <<"context", "path", "method", "readData">>)
             ELSE authenticateAndRespond(req, ctx, UndefinedBody, creds, c,
                                         <<"context", "path", "method">>)

\* The handler from the arrival of the request to its first suspension.
handlerStart(req, hc, creds, c) ==
    IF isCORSPreflightRequest(req)
    THEN Finished(sendCORSPreflightResponse, <<"preflight">>)
    ELSE IF ~hc.installed
    THEN Finished(sendErrorResponse(500, Message("Missing HTTP context")), <<"context">>)
    ELSE LET ctx == hc.value
             expectedUrl == expectedUrlOf(ctx.expectedRequest.apiMethodPath)
         IN  IF req.method # ctx.expectedRequest.httpMethod
             THEN Finished(sendErrorResponse(500,
                      Diagnostic("Unexpected HTTP request method",
                                 ctx.expectedRequest.httpMethod, req.method)),
                      <<"context", "method">>)
             ELSE IF \/ req.url.pathname # expectedUrl.pathname
                     \/ ~areUrlsSearchEqual(req.url.search, expectedUrl.search)
             THEN Finished(sendErrorResponse(500,
                      Diagnostic("Unexpected HTTP request path",
                                 expectedUrl.pathname \o SearchStr(expectedUrl.search),
                                 req.url.pathname \o SearchStr(req.url.search))),
                      <<"context", "method", "path">>)
             ELSE IF ctx.expectedRequest.data.tag = "string"
                     /\ ctx.expectedRequest.data.str # ""
             THEN Outcome("reading", <<>>, <<"context", "method", "path", "readData">>)
             ELSE authenticateAndRespond(req, ctx, UndefinedBody, creds, c,
                                         <<"context", "method", "path">>)

---------------------------------------------------------------------------
(* The credentials registry: src/src/ApiServer.js, set credentials         *)

SingleDeviceCredentials(deviceId, apiAccessSecret) ==
    [deviceId |-> deviceId, apiAccessSecret |-> apiAccessSecret]

\* A posted credentials document: one object, or an array of them.
CredentialsDoc(isArray, items) == [isArray |-> isArray, items |-> items]

nonEmptyStringTypeDef(d) == Len(d) > 0

isValidDeviceCredentials(data) ==
    /\ data.isArray \/ Len(data.items) = 1
    /\ \A i \in 1..Len(data.items) : nonEmptyStringTypeDef(data.items[i].deviceId)

EmptyMap == [k \in {} |-> ""]
MapSet(m, k, v) == [x \in (DOMAIN m) \cup {k} |-> IF x = k THEN v ELSE m[x]]

\* As setAll, but an item of a deviceId already set is skipped.
RECURSIVE setAll_FirstWins(_, _)
setAll_FirstWins(m, items) ==
    IF items = <<>> THEN m
    ELSE setAll_FirstWins(
            IF Head(items).deviceId \in DOMAIN m THEN m
            ELSE MapSet(m, Head(items).deviceId, Head(items).apiAccessSecret),
            Tail(items))

\* this._deviceCredentials.clear(); then set(deviceId, ...) for each item.
RECURSIVE setAll(_, _)
setAll(m, items) ==
    IF items = <<>> THEN m
    ELSE setAll(MapSet(m, Head(items).deviceId, Head(items).apiAccessSecret),
                Tail(items))

---------------------------------------------------------------------------
(* The values the model draws its inputs from                              *)

MaxTicks == 2        \* clock steps taken in a behaviour
MaxQueryLen == 3     \* parameters in a query given to areUrlsSearchEqual

Device1 == "drc3XdxNtzoucpw9xiRp"
Device2 == "dnN3Ea43bhMTHtTvpytS"
Secret1 == "apiAccessSecret-1"
Secret2 == "apiAccessSecret-2"

\* The clock starts at 2022-12-31T23:59:59.000Z.
ClockStart == [sec |-> SecondOf(2022, 12, 31, 23, 59, 59), ms |-> 0]
Ticks(c) == 2 * (c.sec - ClockStart.sec) + (IF c.ms = 0 THEN 0 ELSE 1)

CredentialsDocs ==
    { CredentialsDoc(TRUE, <<>>),
      CredentialsDoc(FALSE, <<SingleDeviceCredentials(Device1, Secret1)>>),
      CredentialsDoc(TRUE, <<SingleDeviceCredentials(Device1, Secret2),
                             SingleDeviceCredentials(Device2, Secret2),
                             SingleDeviceCredentials(Device1, Secret1)>>),
      CredentialsDoc(TRUE, <<SingleDeviceCredentials("", Secret1)>>),
      CredentialsDoc(FALSE, <<>>) }

Data1 == "{\"message\":\"Test message #1\"}"
Data2 == "{\"message\":\"WRONG\"}"

Path1 == ApiMethodPath(TRUE, TRUE, "messages/log", <<>>)
Path2 == ApiMethodPath(TRUE, FALSE, "messages", << <<"b", 2>>, <<"a", 1>>, <<"b", 3>> >>)

RequiredResponses ==
    { NoResponse("undefined"),
      SuccessResponse("{\"messageId\":\"mdx8vuCGWdb2TFeWFZd6\"}"),
      SuccessResponse("0"),
      ErrorResponse(400, "Not enough credits to pay for log message service"),
      ErrorResponse(400, ""),
      ErrorResponse(99, "Not enough credits to pay for log message service") }

Authenticates == {Undefined, Null, Bool(TRUE), Bool(FALSE)}

\* The documents posted for installation: valid ones and rejected ones.
HttpContextDocs ==
    { HttpContext("POST", Path1, Str(Data1), a, r) :
        a \in Authenticates, r \in RequiredResponses }
    \cup { HttpContext("GET", Path2, Undefined, a, r) :
        a \in {Undefined, Bool(FALSE)},
        r \in { NoResponse("undefined"),
                ErrorResponse(400, "Not enough credits to pay for log message service") } }
    \cup { HttpContext("POST", Path1, Null, Bool(FALSE), NoResponse("null")),
           HttpContext("PUT", Path1, Undefined, Undefined, NoResponse("undefined")),
           HttpContext("POST", ApiMethodPath(FALSE, FALSE, "", <<>>), Undefined,
                       Undefined, NoResponse("undefined")),
           HttpContext("POST", Path1, Str("null"), Undefined, NoResponse("undefined")),
           HttpContext("POST", Path1, Str("{bad"), Undefined, NoResponse("undefined")),
           HttpContext("POST", Path1, Undefined, Undefined, SuccessResponse("null")),
           HttpContext("POST", Path1, Undefined, Undefined, NoResponse("other")) }

AbsentContentType == [present |-> FALSE, value |-> ""]

Headers(host, contentType, preflight, timestamp, authorization) ==
    [host |-> host, contentType |-> contentType, preflight |-> preflight,
     timestamp |-> timestamp, authorization |-> authorization]

NoRequest ==
    HttpRequest("", Url("", <<>>),
        Headers("", AbsentContentType, FALSE, AbsentTimestamp, AbsentAuthorization),
        <<>>)

\* What a client does to sign req: the authorization header for the device,
\* sign date and secret, over the body it sends.
ClientAuthorization(req, credKw, deviceId, signDate, secret, body) ==
    Header(AuthorizationStr(signMethodId, credKw, deviceId, signDate,
        scopeRequest, "Signature",
        signHttpRequest(req, [timestamp |-> req.headers.timestamp.value,
                              signDate |-> signDate,
                              apiAccessSecret |-> secret,
                              reqBody |-> body])))

Signed(req, credKw, deviceId, signDate, secret, body) ==
    [req EXCEPT !.headers.authorization =
        ClientAuthorization(req, credKw, deviceId, signDate, secret, body)]

Timestamp0 == TimestampStr(2022, 12, 31, 23, 59, 59)   \* the clock's start
TimestampEarly == TimestampStr(2022, 12, 31, 23, 54, 59) \* 300 s before it
SignDate0 == DateStr(2022, 12, 31)

Url1 == Url(apiBasePath \o "messages/log", <<>>)
Url2 == Url(apiBasePath \o "messages", << <<"a", 1>>, <<"b", 3>>, <<"b", 2>> >>)
Url3 == Url(apiBasePath \o "messages", << <<"a", 1>>, <<"b", 2>>, <<"b", 2>> >>)

ApiMethods == { <<"POST", FALSE>>, <<"GET", FALSE>>, <<"OPTIONS", TRUE>>,
                <<"OPTIONS", FALSE>> }
ApiUrls == {Url1, Url2, Url3}
ApiContentTypes ==
    {AbsentContentType, Header("application/json"), Header("text/plain")}
ApiBodies == { <<>>, <<Data1>>, <<Data2>>, <<Data1, "garbage">> }
ApiAuthKinds == {"none", "valid", "early", "forged"}

\* The request with the given method, target, content type, body and kind of
\* authentication headers.
ApiRequestOf(t) ==
    LET timestamp == CASE t[5] = "none" -> AbsentTimestamp
                       [] t[5] = "early" -> Header(TimestampEarly)
                       [] OTHER -> Header(Timestamp0)
        req == HttpRequest(t[1][1], t[2],
                   Headers("localhost:3500", t[3], t[1][2], timestamp,
                           AbsentAuthorization),
                   t[4])
    IN  CASE t[5] = "none" -> req
          [] t[5] = "forged" ->
                Signed(req, "Credential", Device1, SignDate0, Secret2, Concat(t[4]))
          [] OTHER ->
                Signed(req, "Credential", Device1, SignDate0, Secret1, Concat(t[4]))

\* In how many of its five parts a request description differs from another.
Distance(t, u) == Cardinality({i \in 1..5 : t[i] # u[i]})

BaseRequest1 == << <<"POST", FALSE>>, Url1, Header("application/json"), <<Data1>>, "valid" >>
BaseRequest2 == << <<"GET", FALSE>>, Url2, AbsentContentType, <<>>, "valid" >>

\* The requests sent to the API server: the two that match the installed
\* contexts, and every request differing from one of them in up to two parts.
ApiRequests ==
    { ApiRequestOf(t) :
        t \in { u \in ApiMethods \X ApiUrls \X ApiContentTypes \X ApiBodies
                      \X ApiAuthKinds :
                   Distance(u, BaseRequest1) <= 2 \/ Distance(u, BaseRequest2) <= 2 } }

---------------------------------------------------------------------------
(* NotifyContext documents: src/src/Authentication.js:205-249, 539-545     *)

notifyWSSubprotocol == "notify.catenis.io"

notificationEvents ==
    { "new-msg-received", "sent-msg-read", "asset-received", "asset-confirmed",
      "final-msg-progress", "asset-export-outcome", "asset-migration-outcome",
      "nf-token-received", "nf-token-confirmed", "nf-asset-issuance-outcome",
      "nf-token-retrieval-outcome", "nf-token-transfer-outcome" }

\* The timeout property of a notification message: undefined, null, a number,
\* or a value of another type.
NoTimeout(tag) == [tag |-> tag, num |-> 0]
Timeout(num) == [tag |-> "number", num |-> num]

NotificationMessageInfo(data, timeout) == [data |-> data, timeout |-> timeout]

\* A posted notification context: the kind of JSON value, and for an object
\* its device ids, each with its event names, each with its message.
NotifyContext(kind, map) == [kind |-> kind, map |-> map]
NoDevices == [d \in {} |-> [e \in {} |-> NotificationMessageInfo("", NoTimeout("undefined"))]]
OneDevice(deviceId, events) == [d \in {deviceId} |-> events]
NoEvents == [e \in {} |-> NotificationMessageInfo("", NoTimeout("undefined"))]
OneEvent(eventName, info) == [e \in {eventName} |-> info]

notificationMessageInfoTypeDef(d) ==
    /\ jsonDataTypeDef(d.data)
    /\ d.timeout.tag \in {"undefined", "null", "number"}

isValidNotifyContext(data) ==
    /\ data.kind = "object"
    /\ \A deviceId \in DOMAIN data.map :
        /\ nonEmptyStringTypeDef(deviceId)
        /\ \A eventName \in DOMAIN data.map[deviceId] :
            /\ eventName \in notificationEvents
            /\ notificationMessageInfoTypeDef(data.map[deviceId][eventName])

\* this._notifyContext before any installation.
NoNotifyContext == [installed |-> FALSE, value |-> NotifyContext("null", NoDevices)]

---------------------------------------------------------------------------
(* The command server: src/src/WSNotificationChannel.js:451-761            *)

\* The version read from package.json (src/src/main.js:16).
appVersion == "1.1.0"

\* A JSON document as the control plane reads it: which of the three kinds of
\* document it is, and the document.
JsonDoc(kind, credentials, ctx, notify) ==
    [kind |-> kind, credentials |-> credentials, httpContext |-> ctx,
     notifyContext |-> notify]
NoDoc ==
    JsonDoc("none", CredentialsDoc(FALSE, <<>>), NoHttpContext.value,
            NoNotifyContext.value)
CredentialsJson(data) ==
    JsonDoc("credentials", data, NoHttpContext.value, NoNotifyContext.value)
HttpContextJson(data) ==
    JsonDoc("httpContext", CredentialsDoc(FALSE, <<>>), data, NoNotifyContext.value)
NotifyContextJson(data) ==
    JsonDoc("notifyContext", CredentialsDoc(FALSE, <<>>), NoHttpContext.value, data)

\* A request body: whether its text is JSON at all, the document the whole
\* text stands for, and the number of chunks it arrives in.
CommandBody(isJSON, doc, chunks) == [isJSON |-> isJSON, doc |-> doc, chunks |-> chunks]
NoCommandBody == CommandBody(FALSE, NoDoc, 0)

CommandRequest(method, pathname, contentType, preflight, body) ==
    [method |-> method, pathname |-> pathname,
     headers |-> [contentType |-> contentType, preflight |-> preflight],
     body |-> body]
NoCommand == CommandRequest("", "", AbsentContentType, FALSE, NoCommandBody)

\* readData resolves on the first 'readable' event, with the n chunks that
\* have arrived by then (ApiServer.js:622-646).
CommandReadableChunks(req) == IF req.body.chunks = 0 THEN {0} ELSE 1..req.body.chunks

\* JSON.parse(body.toString()) of the first n chunks: only the whole text of
\* a JSON body parses; a proper prefix of it, or an empty text, does not.
parseCommandBody(body, n) ==
    IF body.isJSON /\ body.chunks >= 1 /\ n = body.chunks
    THEN [ok |-> TRUE, value |-> body.doc]
    ELSE [ok |-> FALSE, value |-> NoDoc]

\* The body of a command response: absent, a text, or the JSON text of the
\* registry, of the HttpContext or of the NotifyContext.
CommandResponseBody(kind, text, credentials, ctx, notify) ==
    [kind |-> kind, text |-> text, credentials |-> credentials, httpContext |-> ctx,
     notifyContext |-> notify]
NoData ==
    CommandResponseBody("none", "", {}, NoHttpContext.value, NoNotifyContext.value)
TextData(text) ==
    CommandResponseBody("text", text, {}, NoHttpContext.value, NoNotifyContext.value)
JsonStringData(text) ==
    CommandResponseBody("string", text, {}, NoHttpContext.value, NoNotifyContext.value)
CredentialsData(credentials) ==
    CommandResponseBody("credentials", "", credentials, NoHttpContext.value,
                        NoNotifyContext.value)
HttpContextData(ctx) ==
    CommandResponseBody("httpContext", "", {}, ctx, NoNotifyContext.value)
NotifyContextData(notify) ==
    CommandResponseBody("notifyContext", "", {}, NoHttpContext.value, notify)

CommandResponse(statusCode, statusMessage, body) ==
    [statusCode |-> statusCode, statusMessage |-> statusMessage, body |-> body]

StatusStr(statusCode) ==
    CASE statusCode = 400 -> "400" [] statusCode = 404 -> "404"
      [] statusCode = 500 -> "500" [] OTHER -> "?"

commandSendSuccessResponse(data) == <<CommandResponse(200, "", data)>>

commandSendErrorResponse(statusCode, errorMessage) ==
    <<CommandResponse(statusCode, errorMessage,
        TextData("Error: [" \o StatusStr(statusCode) \o "]"
                 \o (IF errorMessage = "" THEN "" ELSE " - " \o errorMessage)))>>

commandSendCORSPreflightResponse == <<CommandResponse(204, "", NoData)>>

\* get credentials(): Array.from(this._deviceCredentials.values()).
credentials(creds) ==
    { SingleDeviceCredentials(d, creds[d]) : d \in DOMAIN creds }

\* What the three setters work on.
Installation(creds, hc, nc) ==
    [deviceCredentials |-> creds, httpContext |-> hc, notifyContext |-> nc]

InstallPaths == {"/device-credentials", "/http-context", "/notify-context"}

InvalidMessage(pathname) ==
    CASE pathname = "/device-credentials" -> "Invalid device credentials"
      [] pathname = "/http-context" -> "Invalid HTTP context"
      [] pathname = "/notify-context" -> "Invalid notification context"

\* The setter behind an install endpoint: it throws for a document that is
\* not valid, otherwise it stores the document.
installSetter(pathname, st, doc) ==
    CASE pathname = "/device-credentials" ->
            IF doc.kind = "credentials" /\ isValidDeviceCredentials(doc.credentials)
            THEN [threw |-> FALSE,
                  st |-> [st EXCEPT !.deviceCredentials =
                                        setAll(EmptyMap, doc.credentials.items)]]
            ELSE [threw |-> TRUE, st |-> st]
      [] pathname = "/http-context" ->
            IF doc.kind = "httpContext" /\ isValidHttpContext(doc.httpContext)
            THEN [threw |-> FALSE,
                  st |-> [st EXCEPT !.httpContext = Installed(doc.httpContext)]]
            ELSE [threw |-> TRUE, st |-> st]
      [] pathname = "/notify-context" ->
            IF doc.kind = "notifyContext" /\ isValidNotifyContext(doc.notifyContext)
            THEN [threw |-> FALSE,
                  st |-> [st EXCEPT !.notifyContext =
                                        [installed |-> TRUE, value |-> doc.notifyContext]]]
            ELSE [threw |-> TRUE, st |-> st]

\* The getter behind an install endpoint, through JSON.stringify: undefined
\* (no data) while no context is installed.
installGetter(pathname, st) ==
    CASE pathname = "/device-credentials" -> CredentialsData(credentials(st.deviceCredentials))
      [] pathname = "/http-context" ->
            IF st.httpContext.installed THEN HttpContextData(st.httpContext.value)
            ELSE NoData
      [] pathname = "/notify-context" ->
            IF st.notifyContext.installed THEN NotifyContextData(st.notifyContext.value)
            ELSE NoData

\* Where a command handler stands and what it has done: its position, the
\* responses written, the installed state, and whether it called
\* closeAllClients, apiServer.close() and this.close().
CommandOutcome(pc, written, st, calls) ==
    [pc |-> pc, written |-> written, st |-> st, calls |-> calls]

\* The handler from the arrival of a request to its first await or its end.
commandHandlerStart(req, st) ==
    IF isCORSPreflightRequest(req)
    THEN CommandOutcome("done", commandSendCORSPreflightResponse, st, {})
    ELSE CASE req.pathname \in InstallPaths ->
                IF req.method = "GET"
                THEN CommandOutcome("done",
                        commandSendSuccessResponse(installGetter(req.pathname, st)), st, {})
                ELSE IF req.method = "POST" /\ hasJSONContentType(req)
                THEN CommandOutcome("reading", <<>>, st, {})
                ELSE CommandOutcome("done", commandSendErrorResponse(404, ""), st, {})
           [] req.pathname = "/notify-close" ->
                IF req.method = "POST"
                THEN CommandOutcome("done", commandSendSuccessResponse(NoData), st,
                                    {"closeAllClients"})
                ELSE CommandOutcome("done", commandSendErrorResponse(404, ""), st, {})
           [] req.pathname = "/info" ->
                IF req.method = "GET"
                THEN CommandOutcome("done",
                        commandSendSuccessResponse(
                            JsonStringData("Catenis API Emulator (ver. " \o appVersion \o ")")),
                        st, {})
                ELSE CommandOutcome("ended", <<>>, st, {})
           [] req.pathname = "/close" ->
                IF req.method = "POST"
                THEN CommandOutcome("closingApi", <<>>, st, {"apiServer.close"})
                ELSE CommandOutcome("done", commandSendErrorResponse(404, ""), st, {})
           [] OTHER ->
                CommandOutcome("done", commandSendErrorResponse(404, ""), st, {})

\* As commandHandlerRead, but the 200 is sent and the document is not stored
\* by the time the handler ends.
commandHandlerRead_RespondOnly(req, st, n) ==
    LET parsed == parseCommandBody(req.body, n)
        set == installSetter(req.pathname, st, parsed.value)
    IN  IF parsed.ok /\ ~set.threw
        THEN CommandOutcome("done", commandSendSuccessResponse(NoData), st, {})
        ELSE CommandOutcome("done",
                commandSendErrorResponse(400, InvalidMessage(req.pathname)), st, {})

\* An install handler after await readData(req): parse, set, respond.
commandHandlerRead(req, st, n) ==
    LET parsed == parseCommandBody(req.body, n)
        set == installSetter(req.pathname, st, parsed.value)
    IN  IF parsed.ok /\ ~set.threw
        THEN CommandOutcome("done", commandSendSuccessResponse(NoData), set.st, {})
        ELSE CommandOutcome("done",
                commandSendErrorResponse(400, InvalidMessage(req.pathname)), st, {})

\* The /close handler after await this.apiServer.close(): the response, then
\* this.close(); or, when closing was refused, the 500 response.
commandHandlerApiClosed(req, st, refused) ==
    IF refused
    THEN CommandOutcome("done", commandSendErrorResponse(500, ""), st, {})
    ELSE CommandOutcome("closingCmd", commandSendSuccessResponse(NoData), st,
                        {"this.close"})

---------------------------------------------------------------------------
(* The notification channels: src/src/WSNotificationChannel.js:1-199 and   *)
(* the notification server: src/src/Authentication.js:251-533              *)

MaxChannels == 2     \* WebSocket clients that connect in a behaviour
MaxPings == 2        \* pings sent on one channel in a behaviour
ChannelIds == 1..MaxChannels

heartbeatInterval == 30000
authMsgTimeout == 5000
notifyChannelOpenMsg == "NOTIFICATION_CHANNEL_OPEN"

\* An upgrade request: the HTTP request and the subprotocols it offers.
UpgradeRequest(http, protocols) == [http |-> http, protocols |-> protocols]

\* A channel: the socket's readyState ("none" before the upgrade, "destroyed"
\* when the upgrade was refused), the upgrade request it keeps with the
\* subprotocols it offered, the event of its URL, the subprotocol agreed, the device id (undefined until
\* authenticated), the liveness flag, the close frame the server sent, the
\* text frames sent, the sends whose callback is still to run, and the steps
\* taken so far.
Channel(readyState, req, offered, eventName, protocol, deviceId, isAlive, closed,
        sent, sending, trace) ==
    [readyState |-> readyState, req |-> req, offered |-> offered,
     eventName |-> eventName,
     protocol |-> protocol, deviceId |-> deviceId, isAlive |-> isAlive,
     closed |-> closed, sent |-> sent, sending |-> sending, trace |-> trace,
     pings |-> 0, unanswered |-> 0, terminated |-> FALSE]
NoCloseFrame == [code |-> 0, reason |-> ""]
CloseFrame(code, reason) == [code |-> code, reason |-> reason]
NoChannel ==
    Channel("none", NoRequest, {}, "", "", Undefined, FALSE, NoCloseFrame, <<>>, 0,
            <<>>)

\* A timer set with setTimeout or setInterval and not yet cleared: the
\* authentication deadline or the heartbeat of a channel, or the dispatch of
\* the data of a device and an event.
ChannelTimer(kind, channel, delay) ==
    [kind |-> kind, channel |-> channel, deviceId |-> "", eventName |-> "",
     data |-> "", delay |-> delay]
\* channel is the channel whose autoDispatchMessages call set the timer: two
\* calls of setTimeout make two timers, also with the same arguments.
DispatchTimer(channel, deviceId, eventName, data, delay) ==
    [kind |-> "dispatch", channel |-> channel, deviceId |-> deviceId,
     eventName |-> eventName, data |-> data, delay |-> delay]

\* The key of dispatchNotifyMsgTimeouts: `${deviceId}_${eventName}`.
DispatchKey(deviceId, eventName) == deviceId \o "_" \o eventName

MapDelete(m, k) == [x \in (DOMAIN m) \ {k} |-> m[x]]

\* deviceEventNotifyChannels and dispatchNotifyMsgTimeouts when empty.
NoEventChannels == [e \in {} |-> {}]
EmptyIndex == [d \in {} |-> NoEventChannels]
NoTimeouts == [k \in {} |-> DispatchTimer(0, "", "", "", 0)]

\* The state of the notification server that its operations work on.
WsState(chs, index, dispatch, tms) ==
    [channels |-> chs, deviceEventNotifyChannels |-> index,
     dispatchNotifyMsgTimeouts |-> dispatch, timers |-> tms]

\* url.pathname.match(reWSNotifyPath) with the captured name in
\* notificationEvents: the event name, or false ("" here).
checkNotificationUrl(pathname) ==
    LET matches == { e \in notificationEvents :
                        pathname = apiBasePath \o "notify/ws/" \o e }
    IN  IF matches = {} THEN "" ELSE CHOOSE e \in matches : TRUE

\* validateProtocol: the subprotocol chosen, or false ("" here).
validateProtocol(protocols) ==
    IF notifyWSSubprotocol \in protocols THEN notifyWSSubprotocol ELSE ""

\* wss.handleUpgrade: handleProtocols is called when the client offers
\* subprotocols, and the one it returns is agreed; when it returns false, or
\* none was offered, the connection is established without a subprotocol.
agreedProtocol(protocols) ==
    IF protocols = {} THEN "" ELSE validateProtocol(protocols)

\* The 'upgrade' handler with the constructor of the channel: the socket is
\* destroyed for another URL, else the channel is constructed.
upgrade(req) ==
    IF checkNotificationUrl(req.http.url.pathname) # ""
    THEN Channel("OPEN", req.http, req.protocols,
                 checkNotificationUrl(req.http.url.pathname),
                 agreedProtocol(req.protocols), Undefined, TRUE, NoCloseFrame,
                 <<>>, 0, <<"constructor">>)
    ELSE [NoChannel EXCEPT !.readyState = "destroyed", !.req = req.http,
                           !.offered = req.protocols]

\* get authenticated(): !!this.deviceId.
authenticated(ch) == ch.deviceId.tag = "string" /\ ch.deviceId.str # ""

\* ws.close(code, reason): an open socket sends the close frame and is
\* CLOSING; a socket already closing or closed is left as it is.
wsClose(ch, code, reason) ==
    IF ch.readyState = "OPEN"
    THEN [ch EXCEPT !.readyState = "CLOSING", !.closed = CloseFrame(code, reason)]
    ELSE ch

\* As sendMessage, without the test of the socket's state.
sendMessage_AnyState(ch, data, callback) ==
    IF authenticated(ch)
    THEN [ch EXCEPT !.sent = Append(@, data),
                    !.sending = IF callback THEN @ + 1 ELSE @,
                    !.trace = Append(@, "send")]
    ELSE ch

\* sendMessage(data, callback): sent only on an open socket of an
\* authenticated channel; callback says whether one was given.
sendMessage(ch, data, callback) ==
    IF ch.readyState = "OPEN" /\ authenticated(ch)
    THEN [ch EXCEPT !.sent = Append(@, data),
                    !.sending = IF callback THEN @ + 1 ELSE @,
                    !.trace = Append(@, "send")]
    ELSE ch

\* As _authenticationTimeout, without the test of this.authenticated.
_authenticationTimeout_Always(ch) ==
    wsClose(ch, 1002, "Failed to receive authentication message")

_authenticationTimeout(ch) ==
    IF ~authenticated(ch)
    THEN wsClose(ch, 1002, "Failed to receive authentication message")
    ELSE ch

\* ws.terminate(): the socket is destroyed, its close event follows.
wsTerminate(ch) ==
    IF ch.readyState \in {"OPEN", "CLOSING"}
    THEN [ch EXCEPT !.readyState = "CLOSING", !.terminated = TRUE]
    ELSE ch

\* ws.ping(): a ping frame is sent on an open socket; on a closing one
\* nothing is sent.
wsPing(ch) ==
    IF ch.readyState = "OPEN" THEN [ch EXCEPT !.pings = @ + 1] ELSE ch

\* As _heartbeatPing, but the liveness flag is left as it is.
_heartbeatPing_FlagKept(ch) ==
    IF ~ch.isAlive THEN wsTerminate(ch) ELSE wsPing(ch)

_heartbeatPing(ch) ==
    IF ~ch.isAlive
    THEN wsTerminate(ch)
    ELSE wsPing([ch EXCEPT !.isAlive = FALSE])

\* The handler of 'pong' set in the constructor.
pongHandler(ch) == [ch EXCEPT !.isAlive = TRUE]

\* As saveNotificationChannel, but every channel of a device is put in the
\* set of one event.
saveNotificationChannel_OneEvent(index, c, ch) ==
    IF ch.deviceId.tag = "string" /\ ch.deviceId.str # ""
    THEN LET d == ch.deviceId.str
             e == "new-msg-received"
         IN  IF d \in DOMAIN index
             THEN IF e \in DOMAIN index[d]
                  THEN MapSet(index, d, MapSet(index[d], e, index[d][e] \cup {c}))
                  ELSE MapSet(index, d, MapSet(index[d], e, {c}))
             ELSE MapSet(index, d, MapSet(NoEventChannels, e, {c}))
    ELSE index

saveNotificationChannel(index, c, ch) ==
    IF ch.deviceId.tag = "string" /\ ch.deviceId.str # ""
    THEN LET d == ch.deviceId.str
             e == ch.eventName
         IN  IF d \in DOMAIN index
             THEN IF e \in DOMAIN index[d]
                  THEN MapSet(index, d, MapSet(index[d], e, index[d][e] \cup {c}))
                  ELSE MapSet(index, d, MapSet(index[d], e, {c}))
             ELSE MapSet(index, d, MapSet(NoEventChannels, e, {c}))
    ELSE index

\* As discardNotificationChannel, but a set left empty and a device left
\* without event are kept.
discardNotificationChannel_NoPrune(index, c, ch) ==
    IF ch.deviceId.tag = "string" /\ ch.deviceId.str \in DOMAIN index
    THEN LET d == ch.deviceId.str
             e == ch.eventName
         IN  IF e \in DOMAIN index[d]
             THEN MapSet(index, d, MapSet(index[d], e, index[d][e] \ {c}))
             ELSE index
    ELSE index

discardNotificationChannel(index, c, ch) ==
    IF ch.deviceId.tag = "string" /\ ch.deviceId.str \in DOMAIN index
    THEN LET d == ch.deviceId.str
             e == ch.eventName
         IN  IF e \in DOMAIN index[d]
             THEN IF index[d][e] \ {c} = {}
                  THEN IF DOMAIN index[d] = {e}
                       THEN MapDelete(index, d)
                       ELSE MapSet(index, d, MapDelete(index[d], e))
                  ELSE MapSet(index, d, MapSet(index[d], e, index[d][e] \ {c}))
             ELSE index
    ELSE index

\* wss.clients: the sockets accepted and not yet closed.
wssClients(chs) == { c \in DOMAIN chs : chs[c].readyState \in {"OPEN", "CLOSING"} }

_clearDispatchNotifyMsgTimeouts(ws) ==
    [ws EXCEPT !.dispatchNotifyMsgTimeouts = NoTimeouts,
               !.timers = @ \ { ws.dispatchNotifyMsgTimeouts[k] :
                                   k \in DOMAIN ws.dispatchNotifyMsgTimeouts }]

\* As closeAllClients, but only the authenticated clients are closed.
closeAllClients_AuthenticatedOnly(on, ws) ==
    IF on
    THEN _clearDispatchNotifyMsgTimeouts(
            [ws EXCEPT !.channels =
                [c \in DOMAIN ws.channels |->
                    IF c \in wssClients(ws.channels) /\ authenticated(ws.channels[c])
                    THEN wsClose(ws.channels[c], 1001, "Connection closed by end user")
                    ELSE ws.channels[c]]])
    ELSE ws

closeAllClients(on, ws) ==
    IF on
    THEN _clearDispatchNotifyMsgTimeouts(
            [ws EXCEPT !.channels =
                [c \in DOMAIN ws.channels |->
                    IF c \in wssClients(ws.channels)
                    THEN wsClose(ws.channels[c], 1001, "Connection closed by end user")
                    ELSE ws.channels[c]]])
    ELSE ws

\* _dispatchNotifyMessage: the data is sent on every channel indexed under
\* the device and the event.
_dispatchNotifyMessage(ws, deviceId, eventName, data) ==
    IF deviceId \in DOMAIN ws.deviceEventNotifyChannels
       /\ eventName \in DOMAIN ws.deviceEventNotifyChannels[deviceId]
    THEN [ws EXCEPT !.channels =
            [c \in DOMAIN ws.channels |->
                IF c \in ws.deviceEventNotifyChannels[deviceId][eventName]
                THEN sendMessage(ws.channels[c], data, FALSE)
                ELSE ws.channels[c]]]
    ELSE ws

\* As autoDispatchMessages, but the data is always dispatched at once.
autoDispatchMessages_NoTimer(ws, c, nc) ==
    LET ch == ws.channels[c]
        d == ch.deviceId.str
        e == ch.eventName
        ran == [ws EXCEPT !.channels[c].trace = Append(@, "autoDispatchMessages")]
    IN  IF nc.installed /\ authenticated(ch)
           /\ d \in DOMAIN nc.value.map /\ e \in DOMAIN nc.value.map[d]
        THEN _dispatchNotifyMessage(ran, d, e, nc.value.map[d][e].data)
        ELSE ran

\* As autoDispatchMessages, but a timer is set for every timeout that is a
\* number.
autoDispatchMessages_TimerForZero(ws, c, nc) ==
    LET ch == ws.channels[c]
        d == ch.deviceId.str
        e == ch.eventName
        ran == [ws EXCEPT !.channels[c].trace = Append(@, "autoDispatchMessages")]
    IN  IF nc.installed /\ authenticated(ch)
           /\ d \in DOMAIN nc.value.map /\ e \in DOMAIN nc.value.map[d]
        THEN LET notifyMsgInfo == nc.value.map[d][e]
                 key == DispatchKey(d, e)
                 timeout == DispatchTimer(c, d, e, notifyMsgInfo.data,
                                          notifyMsgInfo.timeout.num)
             IN  IF notifyMsgInfo.timeout.tag = "number"
                 THEN IF key \notin DOMAIN ws.dispatchNotifyMsgTimeouts
                      THEN [ran EXCEPT
                                !.dispatchNotifyMsgTimeouts = MapSet(@, key, timeout),
                                !.timers = @ \cup {timeout}]
                      ELSE ran
                 ELSE _dispatchNotifyMessage(ran, d, e, notifyMsgInfo.data)
        ELSE ran

\* As autoDispatchMessages, without the test of dispatchNotifyMsgTimeouts.has.
autoDispatchMessages_NoPendingCheck(ws, c, nc) ==
    LET ch == ws.channels[c]
        d == ch.deviceId.str
        e == ch.eventName
        ran == [ws EXCEPT !.channels[c].trace = Append(@, "autoDispatchMessages")]
    IN  IF nc.installed /\ authenticated(ch)
           /\ d \in DOMAIN nc.value.map /\ e \in DOMAIN nc.value.map[d]
        THEN LET notifyMsgInfo == nc.value.map[d][e]
                 key == DispatchKey(d, e)
                 timeout == DispatchTimer(c, d, e, notifyMsgInfo.data,
                                          notifyMsgInfo.timeout.num)
             IN  IF notifyMsgInfo.timeout.tag = "number" /\ notifyMsgInfo.timeout.num > 0
                 THEN [ran EXCEPT
                            !.dispatchNotifyMsgTimeouts = MapSet(@, key, timeout),
                            !.timers = @ \cup {timeout}]
                 ELSE _dispatchNotifyMessage(ran, d, e, notifyMsgInfo.data)
        ELSE ran

\* autoDispatchMessages(notifyChannel), nc being this._notifyContext.
autoDispatchMessages(ws, c, nc) ==
    LET ch == ws.channels[c]
        d == ch.deviceId.str
        e == ch.eventName
        ran == [ws EXCEPT !.channels[c].trace = Append(@, "autoDispatchMessages")]
    IN  IF nc.installed /\ authenticated(ch)
           /\ d \in DOMAIN nc.value.map /\ e \in DOMAIN nc.value.map[d]
        THEN LET notifyMsgInfo == nc.value.map[d][e]
                 key == DispatchKey(d, e)
                 timeout == DispatchTimer(c, d, e, notifyMsgInfo.data,
                                          notifyMsgInfo.timeout.num)
             IN  IF notifyMsgInfo.timeout.tag = "number" /\ notifyMsgInfo.timeout.num > 0
                 THEN IF key \notin DOMAIN ws.dispatchNotifyMsgTimeouts
                      THEN [ran EXCEPT
                                !.dispatchNotifyMsgTimeouts = MapSet(@, key, timeout),
                                !.timers = @ \cup {timeout}]
                      ELSE ran
                 ELSE _dispatchNotifyMessage(ran, d, e, notifyMsgInfo.data)
        ELSE ran

\* A frame from the client: whether it is a text frame, whether its text is
\* a JSON object with both header keys, the values under them, and the
\* typeof of the value under authorization (JSON.parse yields a number, an
\* object, a boolean or null as readily as a string).
TypedClientFrame(isString, isAuthentication, timestamp, authorization, typeof) ==
    [isString |-> isString, isAuthentication |-> isAuthentication,
     timestamp |-> timestamp, authorization |-> authorization,
     typeofAuthorization |-> typeof]

\* A frame whose value under authorization, if any, is a string.
ClientFrame(isString, isAuthentication, timestamp, authorization) ==
    TypedClientFrame(isString, isAuthentication, timestamp, authorization, "string")

\* The checks of the parse that come before headers[authHeader].match(...).
ChecksBeforeMatch ==
    {"parse_err_missing_headers", "parse_err_malformed_timestamp",
     "parse_err_timestamp_out_of_bounds"}

\* authenticateRequest(this.req) after the values of the frame were put in
\* the headers. The parse tests the authorization with `in` and then calls
\* its match method: a value that is no string has none, the call throws a
\* TypeError, and the catch block maps what is no AuthenticationError.
authenticateFrame(req, creds, c, typeofAuthorization) ==
    LET authData == parseHttpRequestAuthentication(req.headers, c)
    IN  IF \/ typeofAuthorization = "string"
           \/ ~authData.ok /\ authData.code \in ChecksBeforeMatch
        THEN authenticateRequest(req, UndefinedBody, creds, c)
        ELSE authErrorResponse(Thrown(FALSE, "TypeError"))

\* As _messageHandler, but the messages of the notify context are dispatched
\* before NOTIFICATION_CHANNEL_OPEN is sent.
_messageHandler_DispatchFirst(ws, c, frame, creds, now) ==
    LET ch == ws.channels[c]
        req == [ch.req EXCEPT !.headers.timestamp = frame.timestamp,
                              !.headers.authorization = frame.authorization]
        authResult == authenticateFrame(req, creds, now, frame.typeofAuthorization)
    IN  IF authenticated(ch) THEN ws
        ELSE IF frame.isString /\ frame.isAuthentication
        THEN IF ~authResult.failed
             THEN LET recorded == [ch EXCEPT !.req = req,
                                             !.deviceId = Str(authResult.deviceId),
                                             !.trace = Append(@, "deviceId")]
                      saved == [recorded EXCEPT
                                    !.trace = Append(@, "saveNotificationChannel")]
                      started == [saved EXCEPT
                                    !.trace = Append(@, "_startHeartbeatCheck")]
                      dispatched ==
                          autoDispatchMessages(
                              [ws EXCEPT
                                !.deviceEventNotifyChannels =
                                    saveNotificationChannel(@, c, recorded),
                                !.timers = @ \cup {ChannelTimer("heartbeat", c,
                                                                heartbeatInterval)},
                                !.channels[c] = started],
                              c, notifyContext)
                  IN  [dispatched EXCEPT
                        !.channels[c] = sendMessage(@, notifyChannelOpenMsg, TRUE)]
             ELSE [ws EXCEPT !.channels[c] =
                        wsClose([ch EXCEPT !.req = req],
                                IF authResult.code = 500 THEN 1011 ELSE 1002,
                                authResult.message)]
        ELSE [ws EXCEPT !.channels[c] =
                    wsClose(ch, 1002, "Invalid authentication message")]

\* As _messageHandler, without the test of this.authenticated.
_messageHandler_Always(ws, c, frame, creds, now) ==
    LET ch == ws.channels[c]
        req == [ch.req EXCEPT !.headers.timestamp = frame.timestamp,
                              !.headers.authorization = frame.authorization]
        authResult == authenticateFrame(req, creds, now, frame.typeofAuthorization)
    IN  IF frame.isString /\ frame.isAuthentication
        THEN IF ~authResult.failed
             THEN LET recorded == [ch EXCEPT !.req = req,
                                             !.deviceId = Str(authResult.deviceId),
                                             !.trace = Append(@, "deviceId")]
                      saved == [recorded EXCEPT
                                    !.trace = Append(@, "saveNotificationChannel")]
                      started == [saved EXCEPT
                                    !.trace = Append(@, "_startHeartbeatCheck")]
                  IN  [ws EXCEPT
                        !.deviceEventNotifyChannels =
                            saveNotificationChannel(@, c, recorded),
                        !.timers = @ \cup {ChannelTimer("heartbeat", c, heartbeatInterval)},
                        !.channels[c] = sendMessage(started, notifyChannelOpenMsg, TRUE)]
             ELSE [ws EXCEPT !.channels[c] =
                        wsClose([ch EXCEPT !.req = req],
                                IF authResult.code = 500 THEN 1011 ELSE 1002,
                                authResult.message)]
        ELSE [ws EXCEPT !.channels[c] =
                    wsClose(ch, 1002, "Invalid authentication message")]

\* _messageHandler(event) of channel c.
_messageHandler(ws, c, frame, creds, now) ==
    LET ch == ws.channels[c]
        req == [ch.req EXCEPT !.headers.timestamp = frame.timestamp,
                              !.headers.authorization = frame.authorization]
        authResult == authenticateFrame(req, creds, now, frame.typeofAuthorization)
    IN  IF authenticated(ch) THEN ws
        ELSE IF frame.isString /\ frame.isAuthentication
        THEN IF ~authResult.failed
             THEN LET recorded == [ch EXCEPT !.req = req,
                                             !.deviceId = Str(authResult.deviceId),
                                             !.trace = Append(@, "deviceId")]
                      saved == [recorded EXCEPT
                                    !.trace = Append(@, "saveNotificationChannel")]
                      started == [saved EXCEPT
                                    !.trace = Append(@, "_startHeartbeatCheck")]
                  IN  [ws EXCEPT
                        !.deviceEventNotifyChannels =
                            saveNotificationChannel(@, c, recorded),
                        !.timers = @ \cup {ChannelTimer("heartbeat", c, heartbeatInterval)},
                        !.channels[c] = sendMessage(started, notifyChannelOpenMsg, TRUE)]
             ELSE [ws EXCEPT !.channels[c] =
                        wsClose([ch EXCEPT !.req = req],
                                IF authResult.code = 500 THEN 1011 ELSE 1002,
                                authResult.message)]
        ELSE [ws EXCEPT !.channels[c] =
                    wsClose(ch, 1002, "Invalid authentication message")]

\* As _closeHandler, without the call of discardNotificationChannel.
_closeHandler_IndexKept(ws, c) ==
    LET ch == ws.channels[c]
    IN  [ws EXCEPT
            !.channels[c].readyState = "CLOSED",
            !.timers = { t \in @ :
                            /\ ~(t.kind = "auth" /\ t.channel = c /\ ~authenticated(ch))
                            /\ ~(t.kind = "heartbeat" /\ t.channel = c) }]

\* As _closeHandler, but the dispatches the channel scheduled are cancelled.
_closeHandler_DispatchCancelled(ws, c) ==
    LET ch == ws.channels[c]
        cancelled == { k \in DOMAIN ws.dispatchNotifyMsgTimeouts :
                          ws.dispatchNotifyMsgTimeouts[k].channel = c }
    IN  [ws EXCEPT
            !.channels[c].readyState = "CLOSED",
            !.timers = { t \in @ :
                            /\ ~(t.kind = "auth" /\ t.channel = c /\ ~authenticated(ch))
                            /\ ~(t.kind = "heartbeat" /\ t.channel = c)
                            /\ ~(t.kind = "dispatch" /\ t.channel = c) },
            !.dispatchNotifyMsgTimeouts =
                [k \in (DOMAIN @) \ cancelled |-> @[k]],
            !.deviceEventNotifyChannels = discardNotificationChannel(@, c, ch)]

\* _closeHandler(event) of channel c, the socket having closed.
_closeHandler(ws, c) ==
    LET ch == ws.channels[c]
    IN  [ws EXCEPT
            !.channels[c].readyState = "CLOSED",
            !.timers = { t \in @ :
                            /\ ~(t.kind = "auth" /\ t.channel = c /\ ~authenticated(ch))
                            /\ ~(t.kind = "heartbeat" /\ t.channel = c) },
            !.deviceEventNotifyChannels = discardNotificationChannel(@, c, ch)]

---------------------------------------------------------------------------
(* Actions of the API server                                               *)

\* What the synchronous part of the handler read of this._httpContext: whether
\* one was installed, and its method, path and data.
SeenOf(hc) ==
    [installed |-> hc.installed,
     httpMethod |-> hc.value.expectedRequest.httpMethod,
     apiMethodPath |-> hc.value.expectedRequest.apiMethodPath,
     data |-> hc.value.expectedRequest.data]
NothingSeen == SeenOf(NoHttpContext)

ApiIdle ==
    /\ apiReq = NoRequest
    /\ apiSeen = NothingSeen
    /\ apiPc = "idle"
    /\ apiBody = UndefinedBody
    /\ apiRes = <<>>
    /\ apiTrace = <<>>

QueryIdle == q1 = <<>> /\ q2 = <<>> /\ qEqual = "unset"

NoThrown == Thrown(FALSE, "")
NoAuthCall ==
    [called |-> FALSE, req |-> NoRequest, reqBody |-> UndefinedBody,
     thrown |-> NoThrown, result |-> Authenticated("")]
AuthIdle == authCall = NoAuthCall

\* Both listeners are listening (src/src/main.js starts them), no command is
\* being handled and no notification context is installed.
CmdIdle ==
    /\ notifyContext = NoNotifyContext
    /\ apiListener = "listening"
    /\ cmdListener = "listening"
    /\ cmdReq = NoCommand
    /\ cmdPc = "idle"
    /\ cmdRes = <<>>

\* The notification server is started and has no client.
WsIdle ==
    /\ serverOn = TRUE
    /\ channels = [c \in ChannelIds |-> NoChannel]
    /\ deviceEventNotifyChannels = EmptyIndex
    /\ dispatchNotifyMsgTimeouts = NoTimeouts
    /\ timers = {}

\* A finished request is kept, with its responses, until it is forgotten; the
\* installed state and the clock change only while no finished request is
\* being looked at.
Observing == apiPc \in {"done", "threw"} \/ authCall.called

\* set httpContext(data): throws for an invalid document, else stores it.
SetHttpContext(data) ==
    /\ ~Observing
    /\ httpContext' = IF isValidHttpContext(data) THEN Installed(data) ELSE httpContext
    /\ UNCHANGED <<deviceCredentials, clock, apiVars, queryVars, authVars,
                   cmdVars, wsVars>>

\* set credentials(data): throws for an invalid document, else replaces the
\* registry by the document's devices.
SetCredentials(data) ==
    /\ ~Observing
    /\ deviceCredentials' = IF isValidDeviceCredentials(data)
                            THEN setAll(EmptyMap, data.items)
                            ELSE deviceCredentials
    /\ UNCHANGED <<httpContext, clock, apiVars, queryVars, authVars,
                   cmdVars, wsVars>>

\* Time passes: to the last millisecond of the second, then to the next second.
Tick ==
    /\ ~Observing
    /\ Ticks(clock) < MaxTicks
    /\ clock' = IF clock.ms = 0 THEN [clock EXCEPT !.ms = 999]
                ELSE [sec |-> clock.sec + 1, ms |-> 0]
    /\ UNCHANGED <<httpContext, deviceCredentials, apiVars, queryVars, authVars,
                   cmdVars, wsVars>>

\* As ApiRequest, but a request answered with the installed response uses
\* the installed context up.
ApiRequest_ContextConsumed(req) ==
    /\ apiPc = "idle"
    /\ ~authCall.called
    /\ LET o == handlerStart(req, httpContext, deviceCredentials, clock)
       IN  /\ apiReq' = req
           /\ apiPc' = o.pc
           /\ apiRes' = o.written
           /\ apiTrace' = o.trace
           /\ httpContext' = IF o.pc = "done" /\ o.trace # <<>>
                                 /\ o.trace[Len(o.trace)] = "respond"
                              THEN NoHttpContext ELSE httpContext
    /\ apiSeen' = IF isCORSPreflightRequest(req) THEN NothingSeen ELSE SeenOf(httpContext)
    /\ UNCHANGED <<apiBody, deviceCredentials, clock, queryVars, authVars,
                   cmdVars, wsVars>>

\* A request arrives and its handler runs to its first suspension or its end.
ApiRequest(req) ==
    /\ apiPc = "idle"
    /\ ~authCall.called
    /\ LET o == handlerStart(req, httpContext, deviceCredentials, clock)
       IN  /\ apiReq' = req
           /\ apiPc' = o.pc
           /\ apiRes' = o.written
           /\ apiTrace' = o.trace
    /\ apiSeen' = IF isCORSPreflightRequest(req) THEN NothingSeen ELSE SeenOf(httpContext)
    /\ UNCHANGED <<apiBody, httpContext, deviceCredentials, clock, queryVars, authVars,
                   cmdVars, wsVars>>

\* The request's first 'readable' event: readData resolves with the n chunks
\* that have arrived and the handler runs to its end.
ApiReadable(n) ==
    /\ apiPc = "reading"
    /\ n \in ReadableChunks(apiReq)
    /\ LET bytes == readData(apiReq, n)
           o == handlerResume(apiReq, httpContext.value, bytes, deviceCredentials,
                              clock, apiTrace)
       IN  /\ apiBody' = BodyRead(bytes)
           /\ apiPc' = o.pc
           /\ apiRes' = o.written
           /\ apiTrace' = o.trace
    /\ UNCHANGED <<apiReq, apiSeen, httpContext, deviceCredentials, clock, queryVars,
                   authVars,
                   cmdVars, wsVars>>

\* The finished request is forgotten; the server awaits the next one.
ApiForget ==
    /\ apiPc \in {"done", "threw"}
    /\ apiReq' = NoRequest
    /\ apiPc' = "idle"
    /\ apiBody' = UndefinedBody
    /\ apiRes' = <<>>
    /\ apiTrace' = <<>>
    /\ apiSeen' = NothingSeen
    /\ UNCHANGED <<httpContext, deviceCredentials, clock, queryVars, authVars,
                   cmdVars, wsVars>>

Init ==
    /\ httpContext = NoHttpContext
    /\ deviceCredentials = EmptyMap
    /\ clock = ClockStart
    /\ ApiIdle
    /\ QueryIdle
    /\ AuthIdle
    /\ CmdIdle
    /\ WsIdle

Next ==
    \/ ~Observing /\ \E data \in HttpContextDocs : SetHttpContext(data)
    \/ ~Observing /\ \E data \in CredentialsDocs : SetCredentials(data)
    \/ Tick
    \/ apiPc = "idle" /\ \E req \in ApiRequests : ApiRequest(req)
    \/ apiPc = "reading" /\ \E n \in ReadableChunks(apiReq) : ApiReadable(n)
    \/ ApiForget

Spec == Init /\ [][Next]_vars

---------------------------------------------------------------------------
(* areUrlsSearchEqual on its own                                           *)

BoundedSeq(S, n) == UNION { [1..k -> S] : k \in 0..n }

QueryParams == { <<"a", 1>>, <<"a", 2>>, <<"b", 2>>, <<"b", 3>> }
Queries == BoundedSeq(QueryParams, MaxQueryLen)

OthersIdleForQuery ==
    /\ httpContext = NoHttpContext
    /\ deviceCredentials = EmptyMap
    /\ clock = ClockStart
    /\ ApiIdle
    /\ AuthIdle
    /\ CmdIdle
    /\ WsIdle

InitQuery ==
    /\ q1 \in Queries
    /\ q2 \in Queries
    /\ qEqual = "unset"
    /\ OthersIdleForQuery

\* areUrlsSearchEqual(url1, url2) is called on URLs with the two queries.
CompareSearch ==
    /\ qEqual = "unset"
    /\ qEqual' = IF areUrlsSearchEqual(q1, q2) THEN "true" ELSE "false"
    /\ UNCHANGED <<q1, q2, httpContext, deviceCredentials, clock, apiVars, authVars,
                   cmdVars, wsVars>>

NextQuery == CompareSearch

SpecQuery == InitQuery /\ [][NextQuery]_vars

---------------------------------------------------------------------------
(* authenticateRequest on its own                                          *)

AuthTimestamps ==
    { AbsentTimestamp,
      Header(TimestampGarbage),
      Header(TimestampStr(2022, 13, 31, 23, 59, 59)),
      Header(TimestampStr(2022, 12, 31, 23, 54, 58)),
      Header(TimestampEarly),
      Header(TimestampStr(2022, 12, 31, 23, 55, 0)),
      Header(Timestamp0),
      Header(TimestampStr(2023, 1, 1, 0, 4, 59)),
      Header(TimestampStr(2023, 1, 1, 0, 5, 0)),
      Header(TimestampStr(2023, 1, 1, 0, 5, 1)) }

AuthSignDates ==
    { DateGarbage,
      DateStr(2022, 11, 31),
      DateStr(2022, 12, 24),
      DateStr(2022, 12, 25),
      DateStr(2022, 12, 26),
      SignDate0,
      DateStr(2023, 1, 1),
      DateStr(2023, 1, 2) }

\* Credential keyword, device and kind of signature of an authorization header.
AuthShapes ==
    { <<"Credential", Device1, "secret1">>,
      <<"credential", Device1, "secret1">>,
      <<"CREDENTIAL", Device1, "secret1">>,
      <<"Credential", Device2, "secret2">>,
      <<"Credential", "short", "secret1">>,
      <<"Credential", Device1, "secret2">>,
      <<"Credential", Device1, "uppercase">>,
      <<"Credential", Device1, "nothex">>,
      <<"Credential", Device1, "otherbody">>,
      <<"", "", "absent">> }

AuthRequestOf(timestamp, signDate, shape) ==
    LET req == HttpRequest("POST", Url1,
                   Headers("localhost:3500", Header("application/json"), FALSE,
                           timestamp, AbsentAuthorization),
                   <<>>)
        signed(secret, body) == Signed(req, shape[1], shape[2], signDate, secret, body)
        respell(r, hex64, upper) ==
            [r EXCEPT !.headers.authorization.value.signature =
                SignatureStr(hex64, upper, @.mac)]
    IN  CASE shape[3] = "absent" -> req
          [] shape[3] = "secret1" -> signed(Secret1, "")
          [] shape[3] = "secret2" -> signed(Secret2, "")
          [] shape[3] = "uppercase" -> respell(signed(Secret1, ""), TRUE, TRUE)
          [] shape[3] = "nothex" -> respell(signed(Secret1, ""), FALSE, FALSE)
          [] OTHER -> signed(Secret1, Data1)

AuthRequests ==
    { AuthRequestOf(t, d, s) : t \in AuthTimestamps, d \in AuthSignDates, s \in AuthShapes }

AuthBodies == { UndefinedBody, BodyRead(""), BodyRead(Data1) }

\* Errors other than those the parse throws.
OtherErrors == { Thrown(FALSE, "TypeError"), Thrown(TRUE, "parse_err_other") }

\* authenticateRequest(req, reqBody) is called and returns.
AuthCall(req, reqBody) ==
    /\ ~authCall.called
    /\ apiPc = "idle"
    /\ LET authData == parseHttpRequestAuthentication(req.headers, clock)
       IN  authCall' =
               [called |-> TRUE, req |-> req, reqBody |-> reqBody,
                thrown |-> IF authData.ok THEN NoThrown ELSE Thrown(TRUE, authData.code),
                result |-> authenticateRequest(req, reqBody, deviceCredentials, clock)]
    /\ UNCHANGED <<httpContext, deviceCredentials, clock, apiVars, queryVars,
                   cmdVars, wsVars>>

\* authenticateRequest is called and an error other than the parse's is
\* thrown inside its try block: the catch block returns.
AuthCatch(req, err) ==
    /\ ~authCall.called
    /\ apiPc = "idle"
    /\ authCall' = [called |-> TRUE, req |-> req, reqBody |-> UndefinedBody,
                    thrown |-> err, result |-> authErrorResponse(err)]
    /\ UNCHANGED <<httpContext, deviceCredentials, clock, apiVars, queryVars,
                   cmdVars, wsVars>>

AuthForget ==
    /\ authCall.called
    /\ authCall' = NoAuthCall
    /\ UNCHANGED <<httpContext, deviceCredentials, clock, apiVars, queryVars,
                   cmdVars, wsVars>>

NextAuth ==
    \/ ~Observing /\ \E data \in CredentialsDocs : SetCredentials(data)
    \/ Tick
    \/ ~authCall.called
          /\ \E req \in AuthRequests, reqBody \in AuthBodies : AuthCall(req, reqBody)
    \/ ~authCall.called
          /\ \E err \in OtherErrors :
                AuthCatch(AuthRequestOf(Header(Timestamp0), SignDate0,
                                        <<"Credential", Device1, "secret1">>), err)
    \/ AuthForget

SpecAuth == Init /\ [][NextAuth]_vars

---------------------------------------------------------------------------
(* Query comparison                                                        *)

\* How many times the pair name=value occurs in a query.
Occurrences(sp, p) == Cardinality({ i \in 1..Len(sp) : sp[i] = p })

\* The two queries hold the same pairs the same number of times each.
SameMultiset(sp1, sp2) ==
    \A p \in {sp1[i] : i \in 1..Len(sp1)} \cup {sp2[i] : i \in 1..Len(sp2)} :
        Occurrences(sp1, p) = Occurrences(sp2, p)

\* C2: areUrlsSearchEqual answers true exactly when the two queries have the
\* same names and, for each name, the same values the same number of times,
\* whatever the order of the parameters and of a name's values.
C2_SearchEqualIsMultisetEqual ==
    qEqual # "unset" => ((qEqual = "true") <=> SameMultiset(q1, q2))

\* ?a=1&b=2&b=3 has been compared with ?b=3&a=1&b=2 and found equal.
C2_Witness ==
    /\ q1 = << <<"a", 1>>, <<"b", 2>>, <<"b", 3>> >>
    /\ q2 = << <<"b", 3>>, <<"a", 1>>, <<"b", 2>> >>
    /\ qEqual = "true"

\* ?a=1&b=2&b=3 has been compared with ?a=1&b=2 and found different.
C2_WitnessShorter ==
    /\ q1 = << <<"a", 1>>, <<"b", 2>>, <<"b", 3>> >>
    /\ q2 = << <<"a", 1>>, <<"b", 2>> >>
    /\ qEqual = "false"

---------------------------------------------------------------------------
(* Request authentication                                                  *)

\* authenticateRequest has been called and its parse ran to its own end.
AuthParsed == authCall.called /\ authCall.thrown \notin OtherErrors

AuthHeaders == authCall.req.headers
AuthHeadersPresent == AuthHeaders.timestamp.present /\ AuthHeaders.authorization.present

\* The parse got as far as comparing the timestamp with the clock.
ReachedTimestampCheck ==
    /\ AuthParsed
    /\ AuthHeadersPresent
    /\ TimestampIsValid(AuthHeaders.timestamp.value)

\* Seconds from the clock, cut to whole seconds, to the request's timestamp.
TimestampOffset == TimestampSecond(AuthHeaders.timestamp.value) - clock.sec

\* C9: a well-formed timestamp passes when it is at most 300 seconds before or
\* after the clock cut to whole seconds, both ends included, and is otherwise
\* refused as out of bounds.
C9_TimestampWindowInclusive ==
    ReachedTimestampCheck =>
        IF TimestampOffset >= -300 /\ TimestampOffset <= 300
        THEN authCall.thrown.code \notin
                 { "parse_err_missing_headers", "parse_err_malformed_timestamp",
                   "parse_err_timestamp_out_of_bounds" }
        ELSE /\ authCall.thrown = Thrown(TRUE, "parse_err_timestamp_out_of_bounds")
             /\ authCall.result = ErrorResponseInfo(401,
                    "Authorization failed; timestamp not within acceptable time variation")

\* A request stamped exactly 300 seconds before the clock's second has been
\* authenticated 999 ms into that second.
C9_Witness ==
    /\ ReachedTimestampCheck
    /\ TimestampOffset = -300
    /\ clock.ms = 999
    /\ ~authCall.result.failed

\* A request stamped 301 seconds after the clock has been refused.
C9_WitnessRefused ==
    /\ ReachedTimestampCheck
    /\ TimestampOffset = 301
    /\ authCall.result.code = 401

\* The parse got as far as comparing the sign date with the clock's day.
ReachedSignDateCheck ==
    /\ ReachedTimestampCheck
    /\ TimestampOffset >= -300 /\ TimestampOffset <= 300
    /\ authRegexMatches(AuthHeaders.authorization.value)
    /\ LET signDate == AuthHeaders.authorization.value.signDate
       IN  IsValidDate(signDate.y, signDate.m, signDate.d)

\* Whole UTC days from the sign date to the clock's day.
SignDateAge ==
    LET signDate == AuthHeaders.authorization.value.signDate
    IN  (clock.sec \div 86400) - DayOf(signDate.y, signDate.m, signDate.d)

\* C10: a well-formed sign date passes when the clock's UTC day is the sign
\* date or one of the six days after it, and is otherwise (seven or more days
\* old, or in the future) refused as out of bounds.
C10_SignDateWindow ==
    ReachedSignDateCheck =>
        IF SignDateAge >= 0 /\ SignDateAge < 7
        THEN authCall.thrown = NoThrown
        ELSE /\ authCall.thrown = Thrown(TRUE, "parse_err_sign_date_out_of_bounds")
             /\ authCall.result = ErrorResponseInfo(401,
                    "Authorization failed; signature date out of bounds")

\* A request signed six days before the clock's day has been authenticated.
C10_Witness ==
    /\ ReachedSignDateCheck
    /\ SignDateAge = 6
    /\ ~authCall.result.failed

\* A request signed seven days before the clock's day has been refused.
C10_WitnessRefused ==
    /\ ReachedSignDateCheck
    /\ SignDateAge = 7
    /\ authCall.result.code = 401

\* The signature of the called request, recomputed with a secret.
Recomputed(secret) ==
    signHttpRequest(authCall.req,
        [timestamp |-> AuthHeaders.timestamp.value,
         signDate |-> AuthHeaders.authorization.value.signDate,
         apiAccessSecret |-> secret,
         reqBody |-> IF authCall.reqBody.defined THEN authCall.reqBody.bytes ELSE ""])

InvalidDeviceOrSignature ==
    ErrorResponseInfo(401, "Authorization failed; invalid device or signature")

ParseErrorCodes ==
    { "parse_err_missing_headers", "parse_err_malformed_timestamp",
      "parse_err_timestamp_out_of_bounds", "parse_err_malformed_auth_header",
      "parse_err_malformed_sign_date", "parse_err_sign_date_out_of_bounds" }

\* C8: authenticateRequest returns a device id only when the parse succeeded,
\* the device is in the registry and the header's signature equals the one
\* recomputed with the device's secret; an unknown device or another
\* signature gives 401 "invalid device or signature", a parse error of a
\* known kind gives a 401, and any other exception gives 500 "Internal
\* server error".
C8_AuthenticateRequest ==
    authCall.called =>
        LET auth == AuthHeaders.authorization.value
            result == authCall.result
        IN  /\ ~result.failed =>
                   /\ authCall.thrown = NoThrown
                   /\ result.deviceId = auth.deviceId
                   /\ auth.deviceId \in DOMAIN deviceCredentials
                   /\ auth.signature = Recomputed(deviceCredentials[auth.deviceId])
            /\ authCall.thrown = NoThrown =>
                   IF /\ auth.deviceId \in DOMAIN deviceCredentials
                      /\ auth.signature = Recomputed(deviceCredentials[auth.deviceId])
                   THEN result = Authenticated(auth.deviceId)
                   ELSE result = InvalidDeviceOrSignature
            /\ authCall.thrown # NoThrown =>
                   IF /\ authCall.thrown.isAuthenticationError
                      /\ authCall.thrown.code \in ParseErrorCodes
                   THEN result.failed /\ result.code = 401
                   ELSE result = ErrorResponseInfo(500, "Internal server error")

\* A request of a registered device, signed with its secret, has been
\* authenticated as that device.
C8_Witness ==
    /\ authCall.called
    /\ authCall.result = Authenticated(Device1)
    /\ Device1 \in DOMAIN deviceCredentials

\* A well-formed request of a registered device, signed with another secret,
\* has been refused.
C8_WitnessRefused ==
    /\ authCall.called
    /\ authCall.thrown = NoThrown
    /\ AuthHeaders.authorization.value.deviceId \in DOMAIN deviceCredentials
    /\ authCall.result = InvalidDeviceOrSignature

\* An exception that is no parse error has been answered 500.
C8_WitnessOtherError ==
    /\ authCall.called
    /\ authCall.thrown \in OtherErrors
    /\ authCall.result = ErrorResponseInfo(500, "Internal server error")

---------------------------------------------------------------------------
(* Request matching                                                        *)

\* A request that is no CORS preflight has been handled to the end.
ApiFinished == apiPc \in {"done", "threw"}
ApiMatched == ApiFinished /\ ~isCORSPreflightRequest(apiReq)

Did(step) == \E i \in DOMAIN apiTrace : apiTrace[i] = step

\* The context in place when the handler resumed, and the authentication of
\* the request against the registry and the clock of that moment.
CurrentContext == httpContext.value
AuthResult == authenticateRequest(apiReq, apiBody, deviceCredentials, clock)

\* Exactly one response was written: an error envelope with this status code
\* whose message starts with this text.
Answered(statusCode, text) ==
    /\ apiPc = "done"
    /\ Len(apiRes) = 1
    /\ apiRes[1].statusCode = statusCode
    /\ apiRes[1].body.present
    /\ apiRes[1].body.status = "error"
    /\ apiRes[1].body.message.text = text

\* The steps of the handler in the order the claim gives them.
StepOrder ==
    <<"context", "method", "path", "readData", "contentType", "body",
      "authenticate", "respond">>
StepRank(step) == CHOOSE i \in DOMAIN StepOrder : StepOrder[i] = step

\* The request's path and query are those of the context the handler read.
SamePathAndQuery ==
    LET expectedUrl == expectedUrlOf(apiSeen.apiMethodPath)
    IN  /\ apiReq.url.pathname = expectedUrl.pathname
        /\ SameMultiset(apiReq.url.search, expectedUrl.search)

\* The first of the checks that the request does not pass: the context,
\* method and path as the handler read them when the request arrived, the
\* body as read, the data and the authenticate flag as installed when the
\* body had been read.
FirstFailingCheck ==
    IF ~apiSeen.installed THEN "context"
    ELSE IF apiReq.method # apiSeen.httpMethod THEN "method"
    ELSE IF ~SamePathAndQuery THEN "path"
    ELSE IF apiBody.defined /\ apiBody.bytes # "" /\ ~hasJSONContentType(apiReq)
    THEN "contentType"
    ELSE IF /\ apiBody.defined /\ apiBody.bytes # ""
            /\ Str(apiBody.bytes) # CurrentContext.expectedRequest.data
    THEN "body"
    ELSE IF /\ CurrentContext.expectedRequest.authenticate \in {Bool(TRUE), Undefined}
            /\ AuthResult.failed
    THEN "authenticate"
    ELSE "none"

\* C1: the handler takes its steps in the order context, method, path and
\* query, content type and body, authentication; it stops at the first check
\* the request fails and answers with that check's response (500 "Missing
\* HTTP context", a 500 diagnostic, or what authentication returned), and it
\* goes on to the installed response only when no check fails.
C1_FirstFailingCheckDecides ==
    ApiMatched =>
        /\ \A i, j \in DOMAIN apiTrace :
               i < j => StepRank(apiTrace[i]) < StepRank(apiTrace[j])
        /\ apiTrace[Len(apiTrace)] =
               (IF FirstFailingCheck = "none" THEN "respond" ELSE FirstFailingCheck)
        /\ Did("respond") <=> FirstFailingCheck = "none"
        /\ CASE FirstFailingCheck = "context" ->
                   /\ apiPc = "done"
                   /\ apiRes = <<Response(500, ErrorEnvelope(Message("Missing HTTP context")))>>
             [] FirstFailingCheck = "method" -> Answered(500, "Unexpected HTTP request method")
             [] FirstFailingCheck = "path" -> Answered(500, "Unexpected HTTP request path")
             [] FirstFailingCheck = "contentType" -> Answered(500, "Inconsistent content type")
             [] FirstFailingCheck = "body" -> Answered(500, "Unexpected HTTP request body")
             [] FirstFailingCheck = "authenticate" ->
                   /\ AuthResult.code \in {401, 500}
                   /\ Answered(AuthResult.code, AuthResult.message)
             [] OTHER -> TRUE

\* A GET request for another path met a context expecting a POST and was
\* answered with the method diagnostic.
C1_Witness ==
    /\ ApiMatched
    /\ apiSeen.installed
    /\ apiReq.method # apiSeen.httpMethod
    /\ ~SamePathAndQuery
    /\ Answered(500, "Unexpected HTTP request method")

\* A request passed every check, authentication included, and the handler
\* went on to the installed response.
C1_WitnessAllPassed ==
    /\ ApiMatched
    /\ apiTrace = <<"context", "method", "path", "readData", "contentType", "body",
                    "authenticate", "respond">>

---------------------------------------------------------------------------
(* Body comparison and installed responses                                 *)

\* The raw body the request carries.
RawBody == Concat(apiReq.chunks)

\* The installed context expects a body.
DataInstalled ==
    /\ CurrentContext.expectedRequest.data.tag = "string"
    /\ CurrentContext.expectedRequest.data.str # ""

\* C3: with expectedRequest.data installed, a request with the right method
\* and path whose non-empty raw body differs from that data is answered 500
\* "Unexpected HTTP request body" and never gets the installed response; a
\* non-empty body without a JSON content type is answered 500 before the
\* body is compared.
C3_BodyMismatchRefused ==
    ApiMatched /\ Did("readData") /\ DataInstalled /\ RawBody # "" =>
        IF ~hasJSONContentType(apiReq)
        THEN Answered(500, "Inconsistent content type") /\ ~Did("body")
        ELSE RawBody # CurrentContext.expectedRequest.data.str =>
                 Answered(500, "Unexpected HTTP request body") /\ ~Did("respond")

\* A request whose single-chunk body differs from the installed data has
\* been answered with the body diagnostic.
C3_Witness ==
    /\ ApiMatched /\ Did("readData") /\ DataInstalled
    /\ Len(apiReq.chunks) = 1
    /\ RawBody # CurrentContext.expectedRequest.data.str
    /\ Answered(500, "Unexpected HTTP request body")

\* The response a context installs: 200 without a body when it requires
\* none, 200 with the parsed data in a success envelope, or the status code
\* with the message in an error envelope.
InstalledResponse(ctx) ==
    CASE ctx.requiredResponse.tag = "success" ->
            Response(200, SuccessEnvelope(JSONparse(ctx.requiredResponse.data).value))
      [] ctx.requiredResponse.tag = "error" ->
            Response(ctx.requiredResponse.statusCode,
                     ErrorEnvelope(Message(ctx.requiredResponse.errorMessage)))
      [] OTHER -> Response(200, EmptyBody)

\* C4: when every check has passed and the context requires a success
\* response, the request is answered 200 with the envelope
\* {status: "success", data: <parsed data>}, whatever non-null value the
\* data parses to.
C4_SuccessEnvelope ==
    ApiMatched /\ Did("respond") /\ CurrentContext.requiredResponse.tag = "success" =>
        /\ apiPc = "done"
        /\ apiRes = <<Response(200,
               SuccessEnvelope(JSONparse(CurrentContext.requiredResponse.data).value))>>

\* A success response whose data parses to an object has been sent in its
\* envelope.
C4_Witness ==
    /\ ApiMatched /\ Did("respond")
    /\ CurrentContext.requiredResponse.tag = "success"
    /\ apiRes[1].body.present
    /\ apiRes[1].body.data.type = "object"

\* C5: when every check has passed and the context requires an error
\* response, the request is answered with the required status code and the
\* envelope {status: "error", message: <errorMessage>}, whatever the number
\* and the string are.
C5_ErrorEnvelope ==
    ApiMatched /\ Did("respond") /\ CurrentContext.requiredResponse.tag = "error" =>
        /\ apiPc = "done"
        /\ apiRes = <<Response(CurrentContext.requiredResponse.statusCode,
               ErrorEnvelope(Message(CurrentContext.requiredResponse.errorMessage)))>>

\* An error response with status code 400 and a message has been sent.
C5_Witness ==
    /\ ApiMatched /\ Did("respond")
    /\ CurrentContext.requiredResponse.tag = "error"
    /\ Answered(400, CurrentContext.requiredResponse.errorMessage)

\* C6: whatever context is installed and whatever the request, a handled
\* request has received exactly one response and its handler has thrown
\* nothing.
C6_ExactlyOneResponse ==
    ApiFinished => apiPc = "done" /\ Len(apiRes) = 1

\* C7: for a request that passes the checks before authentication, the
\* registry is consulted exactly when authenticate is true or absent; with
\* authenticate false the request gets the installed response whatever its
\* authorization headers; with authenticate true or absent the handler goes
\* on to the installed response only if authenticateRequest returned a
\* device id.
C7_AuthenticationGate ==
    ApiMatched /\ FirstFailingCheck \in {"authenticate", "none"} =>
        LET authenticate == CurrentContext.expectedRequest.authenticate
        IN  /\ Did("authenticate") <=> authenticate \in {Bool(TRUE), Undefined}
            /\ authenticate = Bool(FALSE) =>
                   /\ ~Did("authenticate")
                   /\ apiPc = "done"
                   /\ apiRes = <<InstalledResponse(CurrentContext)>>
            /\ authenticate \in {Bool(TRUE), Undefined} =>
                   (Did("respond") => ~AuthResult.failed)

\* The part of C7 that is about the gate alone: which requests are
\* authenticated, and which go on to the installed response.
AuthenticationGateAlone ==
    ApiMatched /\ FirstFailingCheck \in {"authenticate", "none"} =>
        LET authenticate == CurrentContext.expectedRequest.authenticate
        IN  /\ Did("authenticate") <=> authenticate \in {Bool(TRUE), Undefined}
            /\ authenticate = Bool(FALSE) => ~Did("authenticate") /\ Did("respond")
            /\ authenticate \in {Bool(TRUE), Undefined} =>
                   (Did("respond") <=> ~AuthResult.failed)

\* With authenticate false, a request without authorization headers has been
\* answered with the installed response.
C7_Witness ==
    /\ ApiMatched
    /\ CurrentContext.expectedRequest.authenticate = Bool(FALSE)
    /\ ~apiReq.headers.authorization.present
    /\ ~Did("authenticate")
    /\ apiPc = "done"
    /\ apiRes = <<InstalledResponse(CurrentContext)>>
    /\ apiRes[1].body.present

---------------------------------------------------------------------------
(* Installation while a request is being matched                           *)

\* What the handler does with the request when one and the same context is
\* in place from its arrival to its end, the body read being the same.
HandledAgainst(ctx) ==
    LET o == handlerStart(apiReq, Installed(ctx), deviceCredentials, clock)
    IN  IF o.pc = "reading"
        THEN handlerResume(apiReq, ctx, apiBody.bytes, deviceCredentials, clock, o.trace)
        ELSE o

\* The contexts that may have been in place when the request arrived: the
\* installable ones with the method, path and data the handler read.
ContextsSeen ==
    { ctx \in HttpContextDocs :
        isValidHttpContext(ctx) /\ SeenOf(Installed(ctx)) = apiSeen }

\* C11: a request that was suspended in its body read is decided as one and
\* the same context decides it, the one in place when it arrived or the one
\* in place when it resumed, whatever was installed in between.
C11_OneContextPerRequest ==
    ApiFinished /\ Did("readData") =>
        \E ctx \in ContextsSeen \cup {CurrentContext} :
            /\ apiPc = HandledAgainst(ctx).pc
            /\ apiRes = HandledAgainst(ctx).written

\* A context was replaced by one of the same method, path and data while a
\* request was suspended, and the request was answered as the new one
\* requires.
C11_Witness ==
    /\ ApiFinished /\ Did("readData") /\ Did("respond")
    /\ SeenOf(httpContext) = apiSeen
    /\ apiRes = <<InstalledResponse(CurrentContext)>>
    /\ apiRes[1].statusCode = 400

---------------------------------------------------------------------------
(* The control plane: installs, reads and shutdown through the command     *)
(* server, next to the API server they configure                           *)

CurrentInstallation == Installation(deviceCredentials, httpContext, notifyContext)
CurrentWsState ==
    WsState(channels, deviceEventNotifyChannels, dispatchNotifyMsgTimeouts, timers)

\* What a step of a command handler leaves behind.
CommandStep(o) ==
    /\ cmdPc' = o.pc
    /\ cmdRes' = o.written
    /\ deviceCredentials' = o.st.deviceCredentials
    /\ httpContext' = o.st.httpContext
    /\ notifyContext' = o.st.notifyContext
    /\ apiListener' = IF "apiServer.close" \in o.calls THEN "closing" ELSE apiListener
    /\ cmdListener' = IF "this.close" \in o.calls THEN "closing" ELSE cmdListener
    /\ LET ws == IF "closeAllClients" \in o.calls
                 THEN closeAllClients(serverOn, CurrentWsState)
                 ELSE CurrentWsState
       IN  /\ channels' = ws.channels
           /\ deviceEventNotifyChannels' = ws.deviceEventNotifyChannels
           /\ dispatchNotifyMsgTimeouts' = ws.dispatchNotifyMsgTimeouts
           /\ timers' = ws.timers
    /\ UNCHANGED serverOn

\* A command arrives and its handler runs to its first await or its end.
CommandArrives(req) ==
    /\ cmdPc = "idle"
    /\ cmdListener = "listening"
    /\ cmdReq' = req
    /\ CommandStep(commandHandlerStart(req, CurrentInstallation))
    /\ UNCHANGED <<clock, apiVars, queryVars, authVars>>

\* The command's first 'readable' event: readData resolves with the n chunks
\* that have arrived and the install handler runs to its end.
CommandReadable(n) ==
    /\ cmdPc = "reading"
    /\ n \in CommandReadableChunks(cmdReq)
    /\ CommandStep(commandHandlerRead(cmdReq, CurrentInstallation, n))
    /\ UNCHANGED <<cmdReq, clock, apiVars, queryVars, authVars>>

\* server.close(callback) of the API server calls back once the listener has
\* closed: when no request is being served and no socket is left.
ApiListenerCloses ==
    /\ apiListener = "closing"
    /\ apiPc = "idle"
    /\ wssClients(channels) = {}
    /\ apiListener' = "closed"
    /\ UNCHANGED <<httpContext, deviceCredentials, clock, apiVars, queryVars, authVars,
                   notifyContext, cmdListener, cmdReq, cmdPc, cmdRes, wsVars>>

\* As CommandApiClosed, but the handler goes on as soon as the API listener
\* has begun to close.
CommandApiClosed_NoWait ==
    /\ cmdPc = "closingApi"
    /\ apiListener \in {"closing", "closed"}
    /\ CommandStep(commandHandlerApiClosed(cmdReq, CurrentInstallation, FALSE))
    /\ UNCHANGED <<cmdReq, clock, apiVars, queryVars, authVars>>

\* await this.apiServer.close() returns in the /close handler.
CommandApiClosed ==
    /\ cmdPc = "closingApi"
    /\ apiListener = "closed"
    /\ CommandStep(commandHandlerApiClosed(cmdReq, CurrentInstallation, FALSE))
    /\ UNCHANGED <<cmdReq, clock, apiVars, queryVars, authVars>>

\* server.close(callback) of the command server calls back; the /close
\* handler ends.
CommandListenerCloses ==
    /\ cmdPc = "closingCmd"
    /\ cmdListener = "closing"
    /\ cmdListener' = "closed"
    /\ cmdPc' = "done"
    /\ UNCHANGED <<httpContext, deviceCredentials, clock, apiVars, queryVars, authVars,
                   notifyContext, apiListener, cmdReq, cmdRes, wsVars>>

\* The finished command is forgotten; the server awaits the next one.
CommandForget ==
    /\ cmdPc \in {"done", "ended"}
    /\ cmdListener = "listening"
    /\ cmdReq' = NoCommand
    /\ cmdPc' = "idle"
    /\ cmdRes' = <<>>
    /\ UNCHANGED <<httpContext, deviceCredentials, clock, apiVars, queryVars, authVars,
                   notifyContext, apiListener, cmdListener, wsVars>>

\* An API request arrives while the API listener accepts connections.
ApiRequestAccepted(req) ==
    /\ apiListener = "listening"
    /\ ApiRequest(req)

JsonContentType == Header("application/json")

NotifyContextDocs ==
    { NotifyContext("object", NoDevices),
      NotifyContext("object",
          OneDevice(Device1,
              OneEvent("new-msg-received",
                       NotificationMessageInfo(Data1, Timeout(1))))),
      NotifyContext("object", OneDevice(Device1, NoEvents)),
      NotifyContext("array", NoDevices),
      NotifyContext("object",
          OneDevice(Device1,
              OneEvent("msg-received",
                       NotificationMessageInfo(Data1, NoTimeout("undefined"))))),
      NotifyContext("object",
          OneDevice(Device1,
              OneEvent("sent-msg-read",
                       NotificationMessageInfo(Data1, NoTimeout("string"))))) }

CommandHttpContextDocs ==
    { HttpContext("POST", Path1, Str(Data1), Undefined, NoResponse("undefined")),
      HttpContext("GET", Path2, Undefined, Bool(FALSE), NoResponse("undefined")),
      HttpContext("PUT", Path1, Undefined, Undefined, NoResponse("undefined")) }

CommandDocs ==
    { CredentialsJson(data) : data \in CredentialsDocs }
    \cup { HttpContextJson(data) : data \in CommandHttpContextDocs }
    \cup { NotifyContextJson(data) : data \in NotifyContextDocs }

MaxChunks == 2       \* chunks a command body arrives in

CommandBodies ==
    { CommandBody(TRUE, doc, chunks) : doc \in CommandDocs, chunks \in 1..MaxChunks }
    \cup { CommandBody(FALSE, NoDoc, 1), NoCommandBody }

CommandPaths ==
    InstallPaths \cup {"/notify-close", "/info", "/close", "/", "/http-contexts"}

\* The commands sent: installs with every body, and every other method and
\* path without one.
CommandRequests ==
    { CommandRequest("POST", pathname, JsonContentType, FALSE, body) :
        pathname \in InstallPaths, body \in CommandBodies }
    \cup { CommandRequest(method, pathname, contentType, FALSE, NoCommandBody) :
            method \in {"GET", "POST", "PUT", "OPTIONS"}, pathname \in CommandPaths,
            contentType \in {AbsentContentType, JsonContentType} }
    \cup { CommandRequest("OPTIONS", pathname, AbsentContentType, TRUE, NoCommandBody) :
            pathname \in {"/http-context", "/nowhere"} }

NextCmd ==
    \/ cmdPc = "idle" /\ cmdListener = "listening"
          /\ \E req \in CommandRequests : CommandArrives(req)
    \/ cmdPc = "reading" /\ \E n \in CommandReadableChunks(cmdReq) : CommandReadable(n)
    \/ ApiListenerCloses
    \/ CommandApiClosed
    \/ CommandListenerCloses
    \/ CommandForget
    \/ apiPc = "idle" /\ apiListener = "listening"
          /\ \E t \in {BaseRequest1, BaseRequest2} : ApiRequestAccepted(ApiRequestOf(t))
    \/ apiPc = "reading" /\ \E n \in ReadableChunks(apiReq) : ApiReadable(n)
    \/ ApiForget

SpecCmd == Init /\ [][NextCmd]_vars

---------------------------------------------------------------------------
(* Installs through the control plane                                      *)

CommandFinished == cmdPc \in {"done", "ended"}

\* A POST of a JSON body to one of the three install endpoints.
IsInstall(req) ==
    /\ ~isCORSPreflightRequest(req)
    /\ req.method = "POST"
    /\ req.pathname \in InstallPaths
    /\ hasJSONContentType(req)

\* The body sent is JSON and its document is valid for the endpoint.
BodyPasses(req) ==
    /\ req.body.isJSON
    /\ req.body.chunks >= 1
    /\ CASE req.pathname = "/device-credentials" ->
                /\ req.body.doc.kind = "credentials"
                /\ isValidDeviceCredentials(req.body.doc.credentials)
         [] req.pathname = "/http-context" ->
                /\ req.body.doc.kind = "httpContext"
                /\ isValidHttpContext(req.body.doc.httpContext)
         [] req.pathname = "/notify-context" ->
                /\ req.body.doc.kind = "notifyContext"
                /\ isValidNotifyContext(req.body.doc.notifyContext)
         [] OTHER -> FALSE

\* The registry holds one entry for each deviceId of the items and no other,
\* with the secret of the last item of that deviceId.
RegistryIsExactly(creds, items) ==
    /\ DOMAIN creds = { items[i].deviceId : i \in 1..Len(items) }
    /\ \A i \in 1..Len(items) :
        (\A k \in (i + 1)..Len(items) : items[k].deviceId # items[i].deviceId)
            => creds[items[i].deviceId] = items[i].apiAccessSecret

\* The posted document is what the endpoint's getter now holds.
BecameInstalled(req, creds, hc, nc) ==
    CASE req.pathname = "/device-credentials" ->
            RegistryIsExactly(creds, req.body.doc.credentials.items)
      [] req.pathname = "/http-context" -> hc = Installed(req.body.doc.httpContext)
      [] req.pathname = "/notify-context" ->
            nc = [installed |-> TRUE, value |-> req.body.doc.notifyContext]
      [] OTHER -> FALSE

RejectedWith400(req, res) ==
    /\ Len(res) = 1
    /\ res[1].statusCode = 400
    /\ res[1].statusMessage = InvalidMessage(req.pathname)
    /\ res[1].body.kind = "text"
    /\ res[1].body.text = "Error: [400] - " \o InvalidMessage(req.pathname)

AnsweredWith200(res) ==
    /\ Len(res) = 1
    /\ res[1].statusCode = 200
    /\ res[1].body.kind = "none"

InstallEnds == cmdPc = "reading" /\ cmdPc' \in {"done", "ended"} /\ IsInstall(cmdReq)

\* C12: an install whose body is not valid JSON or fails validation is
\* answered 400 with the endpoint's message and leaves the installed
\* credentials, HttpContext and NotifyContext unchanged; an install whose
\* body passes validation is answered 200 and its document is installed.
C12_InstallValidatedOrRejected ==
    [][ InstallEnds =>
            IF BodyPasses(cmdReq)
            THEN /\ AnsweredWith200(cmdRes')
                 /\ BecameInstalled(cmdReq, deviceCredentials', httpContext',
                                    notifyContext')
            ELSE /\ RejectedWith400(cmdReq, cmdRes')
                 /\ UNCHANGED <<deviceCredentials, httpContext, notifyContext>>
      ]_vars

\* An install of a valid document that arrived in two chunks was answered
\* 400 and nothing was installed.
C12_Witness ==
    /\ CommandFinished
    /\ IsInstall(cmdReq)
    /\ BodyPasses(cmdReq)
    /\ cmdReq.pathname = "/http-context"
    /\ cmdReq.body.chunks = 2
    /\ RejectedWith400(cmdReq, cmdRes)
    /\ httpContext = NoHttpContext

\* What does hold of an install: it ends with the 200 and the document
\* installed, which takes a body that passes, or with the 400 and nothing
\* changed; and a body that passes and is read whole is never refused.
InstallAllOrNothing ==
    [][ InstallEnds =>
            \/ /\ BodyPasses(cmdReq)
               /\ AnsweredWith200(cmdRes')
               /\ BecameInstalled(cmdReq, deviceCredentials', httpContext',
                                  notifyContext')
            \/ /\ RejectedWith400(cmdReq, cmdRes')
               /\ UNCHANGED <<deviceCredentials, httpContext, notifyContext>>
               /\ BodyPasses(cmdReq) => cmdReq.body.chunks > 1
      ]_vars

CommandIs(method, pathname) ==
    /\ ~isCORSPreflightRequest(cmdReq)
    /\ cmdReq.method = method
    /\ cmdReq.pathname = pathname

\* C13: after a successful POST /device-credentials the registry holds
\* exactly the devices of the posted document, the last occurrence of a
\* repeated deviceId winning, and nothing of an earlier installation; GET
\* /device-credentials returns exactly the registry, as an array.
C13_CredentialsInstalledInBulk ==
    /\ CommandFinished /\ CommandIs("POST", "/device-credentials")
            /\ AnsweredWith200(cmdRes)
        => RegistryIsExactly(deviceCredentials, cmdReq.body.doc.credentials.items)
    /\ CommandFinished /\ CommandIs("GET", "/device-credentials")
        => /\ Len(cmdRes) = 1
           /\ cmdRes[1].statusCode = 200
           /\ cmdRes[1].body.kind = "credentials"
           /\ \A entry \in cmdRes[1].body.credentials :
                /\ entry.deviceId \in DOMAIN deviceCredentials
                /\ entry.apiAccessSecret = deviceCredentials[entry.deviceId]
           /\ \A d \in DOMAIN deviceCredentials :
                \E entry \in cmdRes[1].body.credentials : entry.deviceId = d

\* A document with a repeated deviceId was installed.
C13_Witness ==
    /\ CommandFinished /\ CommandIs("POST", "/device-credentials")
    /\ AnsweredWith200(cmdRes)
    /\ Len(cmdReq.body.doc.credentials.items) = 3
    /\ deviceCredentials = (Device1 :> Secret1) @@ (Device2 :> Secret2)

\* The registry of two devices was read.
C13_WitnessRead ==
    /\ CommandFinished /\ CommandIs("GET", "/device-credentials")
    /\ Cardinality(cmdRes[1].body.credentials) = 2

---------------------------------------------------------------------------
(* The installed HttpContext as the data plane sees it                     *)

\* The 200 of a POST /http-context is on the wire.
HttpContextAnswered ==
    /\ CommandFinished
    /\ CommandIs("POST", "/http-context")
    /\ AnsweredWith200(cmdRes)

PostedContext == Installed(cmdReq.body.doc.httpContext)

\* C14: once the 200 of a POST /http-context has been sent the posted
\* context is the stored one; an API request that arrives after that
\* response is handled against the posted context; and GET /http-context
\* returns the stored context.
C14_ContextVisibleAfterResponse ==
    [][ /\ HttpContextAnswered' => httpContext' = PostedContext'
        /\ HttpContextAnswered /\ apiPc = "idle" /\ apiPc' # "idle"
            => LET o == handlerStart(apiReq', PostedContext, deviceCredentials, clock)
               IN  /\ apiPc' = o.pc
                   /\ apiRes' = o.written
                   /\ apiTrace' = o.trace
        /\ (CommandFinished /\ CommandIs("GET", "/http-context"))'
            => cmdRes' = commandSendSuccessResponse(
                            IF httpContext'.installed
                            THEN HttpContextData(httpContext'.value)
                            ELSE NoData)
      ]_vars

\* After the 200 of an install, a request was matched against the posted
\* context and given its response.
C14_Witness ==
    /\ HttpContextAnswered
    /\ PostedContext.value.expectedRequest.httpMethod = "GET"
    /\ ApiFinished
    /\ apiReq.method = "GET"
    /\ apiSeen = SeenOf(PostedContext)
    /\ Len(apiRes) = 1 /\ apiRes[1].statusCode = 200

\* The installed context was read back.
C14_WitnessRead ==
    /\ CommandFinished /\ CommandIs("GET", "/http-context")
    /\ httpContext.installed
    /\ cmdRes[1].body = HttpContextData(httpContext.value)

---------------------------------------------------------------------------
(* Methods and paths the control plane does not serve                      *)

SupportedMethods(pathname) ==
    CASE pathname \in InstallPaths -> {"GET", "POST"}
      [] pathname \in {"/notify-close", "/close"} -> {"POST"}
      [] pathname = "/info" -> {"GET"}
      [] OTHER -> {}

CommandReceived == cmdReq # NoCommand /\ ~isCORSPreflightRequest(cmdReq)

Answered404 ==
    /\ cmdPc = "done"
    /\ Len(cmdRes) = 1
    /\ cmdRes[1].statusCode = 404

\* C15: a command to a known path with a method the path does not support,
\* and a command to an unknown path, is answered 404; none is left without
\* a response.
C15_UnsupportedAnswered404 ==
    CommandReceived /\ cmdReq.method \notin SupportedMethods(cmdReq.pathname)
        => Answered404

\* The handler of a POST /info has ended and nothing was sent.
C15_Witness ==
    /\ CommandReceived
    /\ CommandIs("POST", "/info")
    /\ cmdPc = "ended"
    /\ cmdRes = <<>>

\* Every other path answers 404 as claimed.
UnsupportedElsewhere404 ==
    CommandReceived /\ cmdReq.method \notin SupportedMethods(cmdReq.pathname)
            /\ cmdReq.pathname # "/info"
        => Answered404

---------------------------------------------------------------------------
(* Shutdown through POST /close                                            *)

\* The step in which the /close handler writes its 200.
CloseAnswers ==
    /\ CommandIs("POST", "/close")
    /\ cmdRes = <<>>
    /\ AnsweredWith200(cmdRes')

\* The step in which close() of the command server is called.
CommandServerCloseBegins == cmdListener = "listening" /\ cmdListener' # "listening"

CloseBeginsAfterResponse ==
    CommandServerCloseBegins
        => /\ CommandIs("POST", "/close")
           /\ AnsweredWith200(cmdRes')

\* C16 as stated: POST /close sends its 200 before the API listener has
\* finished closing, and close() of the command server is called only once
\* that response has been sent.
C16_RespondsBeforeApiClosed ==
    [][ /\ CloseAnswers => apiListener # "closed" /\ apiListener' # "closed"
        /\ CloseBeginsAfterResponse
      ]_vars

\* C16, amended: POST /close sends its 200 only after the API listener has
\* finished closing, and close() of the command server is called only once
\* that response has been sent.
C16_RespondsAfterApiClosed ==
    [][ /\ CloseAnswers => apiListener = "closed"
        /\ CloseBeginsAfterResponse
      ]_vars

\* The API listener has closed, the 200 of POST /close is written and the
\* command server is closing.
C16_Witness ==
    /\ CommandIs("POST", "/close")
    /\ AnsweredWith200(cmdRes)
    /\ apiListener = "closed"
    /\ cmdListener = "closing"

---------------------------------------------------------------------------
(* The notification server: upgrades, handshakes, timers and closes        *)

WsStep(ws) ==
    /\ channels' = ws.channels
    /\ deviceEventNotifyChannels' = ws.deviceEventNotifyChannels
    /\ dispatchNotifyMsgTimeouts' = ws.dispatchNotifyMsgTimeouts
    /\ timers' = ws.timers
    /\ UNCHANGED <<httpContext, deviceCredentials, clock, apiVars, queryVars, authVars,
                   cmdVars, serverOn>>

\* set notifyContext(data): throws for an invalid document, else stores it.
SetNotifyContext(data) ==
    /\ notifyContext' = installSetter("/notify-context", CurrentInstallation,
                                      NotifyContextJson(data)).st.notifyContext
    /\ UNCHANGED <<httpContext, deviceCredentials, clock, apiVars, queryVars, authVars,
                   apiListener, cmdListener, cmdReq, cmdPc, cmdRes, wsVars>>

\* A client asks for the upgrade on the API listener: the 'upgrade' handler
\* runs, and for an accepted upgrade the constructor of the channel, which
\* sets the authentication deadline.
Upgrade(c, req) ==
    /\ apiListener = "listening"
    /\ channels[c].readyState = "none"
    /\ \A b \in 1..(c - 1) : channels[b].readyState # "none"
    /\ LET ch == upgrade(req)
       IN  WsStep([CurrentWsState EXCEPT
                !.channels[c] = ch,
                !.timers = IF ch.readyState = "OPEN"
                           THEN @ \cup {ChannelTimer("auth", c, authMsgTimeout)}
                           ELSE @])

\* A frame of the client reaches the channel, whose socket has not closed.
ClientSends(c, frame) ==
    /\ channels[c].readyState \in {"OPEN", "CLOSING"}
    /\ WsStep(_messageHandler(CurrentWsState, c, frame, deviceCredentials, clock))

\* The callback of the send of NOTIFICATION_CHANNEL_OPEN runs.
SendCompletes(c) ==
    /\ channels[c].sending > 0
    /\ WsStep(autoDispatchMessages(
                [CurrentWsState EXCEPT
                    !.channels[c].sending = @ - 1,
                    !.channels[c].trace = Append(@, "sendCompleted")],
                c, notifyContext))

\* The authentication deadline of channel c elapses.
AuthenticationTimeout(c) ==
    /\ ChannelTimer("auth", c, authMsgTimeout) \in timers
    /\ WsStep([CurrentWsState EXCEPT
                !.timers = @ \ {ChannelTimer("auth", c, authMsgTimeout)},
                !.channels[c] = [_authenticationTimeout(@) EXCEPT
                                    !.trace = Append(@, "_authenticationTimeout")]])

\* The socket of channel c closes: the closing handshake ended, or the
\* client went away.
SocketCloses(c) ==
    /\ channels[c].readyState \in {"OPEN", "CLOSING"}
    /\ WsStep(_closeHandler(CurrentWsState, c))

\* As DispatchTimeout, but the data sent is that of the entry the notify
\* context holds for the pair when the timer elapses, if it holds one.
DispatchTimeout_CurrentEntry(t) ==
    /\ t \in timers
    /\ t.kind = "dispatch"
    /\ WsStep(_dispatchNotifyMessage(
                [CurrentWsState EXCEPT
                    !.timers = @ \ {t},
                    !.dispatchNotifyMsgTimeouts =
                        MapDelete(@, DispatchKey(t.deviceId, t.eventName))],
                t.deviceId, t.eventName,
                IF /\ notifyContext.installed
                   /\ t.deviceId \in DOMAIN notifyContext.value.map
                   /\ t.eventName \in DOMAIN notifyContext.value.map[t.deviceId]
                THEN notifyContext.value.map[t.deviceId][t.eventName].data
                ELSE t.data))

\* As DispatchTimeout, but the entry of the pair is left in
\* dispatchNotifyMsgTimeouts.
DispatchTimeout_EntryKept(t) ==
    /\ t \in timers
    /\ t.kind = "dispatch"
    /\ WsStep(_dispatchNotifyMessage(
                [CurrentWsState EXCEPT !.timers = @ \ {t}],
                t.deviceId, t.eventName, t.data))

\* A dispatch timer elapses.
DispatchTimeout(t) ==
    /\ t \in timers
    /\ t.kind = "dispatch"
    /\ WsStep(_dispatchNotifyMessage(
                [CurrentWsState EXCEPT
                    !.timers = @ \ {t},
                    !.dispatchNotifyMsgTimeouts =
                        MapDelete(@, DispatchKey(t.deviceId, t.eventName))],
                t.deviceId, t.eventName, t.data))

\* The heartbeat interval of channel c elapses. unanswered counts the ticks
\* since the last pong; a tick on a socket already destroyed changes
\* nothing and is left out, and so is a ping beyond MaxPings.
HeartbeatTick(c) ==
    /\ ChannelTimer("heartbeat", c, heartbeatInterval) \in timers
    /\ ~channels[c].terminated
    /\ channels[c].pings < MaxPings \/ ~channels[c].isAlive
    /\ WsStep([CurrentWsState EXCEPT
                !.channels[c] = [_heartbeatPing(@) EXCEPT !.unanswered = @ + 1]])

\* A pong of the client reaches the channel, whose socket has not closed.
Pong(c) ==
    /\ channels[c].readyState \in {"OPEN", "CLOSING"}
    /\ ~channels[c].terminated
    /\ WsStep([CurrentWsState EXCEPT
                !.channels[c] = [pongHandler(@) EXCEPT !.unanswered = 0]])

NotifyCloseCommand ==
    CommandRequest("POST", "/notify-close", AbsentContentType, FALSE, NoCommandBody)

UpgradeHttp(pathname) ==
    HttpRequest("GET", Url(pathname, <<>>),
        Headers("localhost:3500", AbsentContentType, FALSE, AbsentTimestamp,
                AbsentAuthorization),
        <<>>)

NotifyUrl == apiBasePath \o "notify/ws/new-msg-received"

\* Upgrades to the notification URL with and without the subprotocol, and
\* upgrades to other URLs.
UpgradeRequests ==
    { UpgradeRequest(UpgradeHttp(NotifyUrl), protocols) :
        protocols \in { {notifyWSSubprotocol}, {}, {"chat"},
                        {"chat", notifyWSSubprotocol} } }
    \cup { UpgradeRequest(UpgradeHttp(pathname), {notifyWSSubprotocol}) :
            pathname \in { apiBasePath \o "notify/ws/msg-received",
                           "/api/0.12/notify/ws/new-msg-received",
                           NotifyUrl \o "/" } }

\* The upgrades of the clients that go on to the handshake.
ClientUpgradeRequests ==
    { UpgradeRequest(UpgradeHttp(NotifyUrl), {notifyWSSubprotocol}),
      UpgradeRequest(UpgradeHttp(apiBasePath \o "notify/ws/msg-received"),
                     {notifyWSSubprotocol}) }

\* The authentication frame a client makes for the upgrade request req with
\* the secret, and frames that are not one.
AuthenticationFrame(req, secret) ==
    ClientFrame(TRUE, TRUE, Header(Timestamp0),
        ClientAuthorization([req EXCEPT !.headers.timestamp = Header(Timestamp0)],
                            "Credential", Device1, SignDate0, secret, ""))

ClientFrames(req) ==
    { AuthenticationFrame(req, Secret1),
      AuthenticationFrame(req, Secret2),
      ClientFrame(TRUE, FALSE, AbsentTimestamp, AbsentAuthorization),
      ClientFrame(FALSE, FALSE, AbsentTimestamp, AbsentAuthorization) }

WsCredentialsDocs ==
    { CredentialsDoc(FALSE, <<SingleDeviceCredentials(Device1, Secret1)>>) }

WsNotifyContextDocs ==
    { NotifyContext("object",
          OneDevice(Device1,
              OneEvent("new-msg-received", NotificationMessageInfo(Data1, timeout)))) :
        timeout \in {Timeout(5), NoTimeout("undefined")} }

NextWs ==
    \/ ~Observing /\ \E data \in WsCredentialsDocs : SetCredentials(data)
    \/ \E data \in WsNotifyContextDocs : SetNotifyContext(data)
    \/ \E c \in ChannelIds :
          channels[c].readyState = "none"
              /\ \E req \in ClientUpgradeRequests : Upgrade(c, req)
    \/ \E c \in ChannelIds :
          channels[c].readyState \in {"OPEN", "CLOSING"}
              /\ \E frame \in ClientFrames(UpgradeHttp(NotifyUrl)) : ClientSends(c, frame)
    \/ \E c \in ChannelIds : SendCompletes(c)
    \/ \E c \in ChannelIds : AuthenticationTimeout(c)
    \/ \E c \in ChannelIds : SocketCloses(c)
    \/ \E t \in timers : DispatchTimeout(t)
    \/ cmdPc = "idle" /\ CommandArrives(NotifyCloseCommand)
    \/ CommandForget

SpecWs == Init /\ [][NextWs]_vars

---------------------------------------------------------------------------
(* Upgrades on their own                                                   *)

NextUpgrade ==
    \/ \E c \in ChannelIds :
          channels[c].readyState = "none" /\ \E req \in UpgradeRequests : Upgrade(c, req)
    \/ \E c \in ChannelIds : AuthenticationTimeout(c)
    \/ \E c \in ChannelIds : SocketCloses(c)

SpecUpgrade == Init /\ [][NextUpgrade]_vars

Constructed(ch) == ch.readyState \in {"OPEN", "CLOSING", "CLOSED"}
Upgraded(ch) == ch.readyState # "none"

\* The pathname is <apiBasePath>notify/ws/<eventName> for an event name of
\* the closed set.
IsNotificationPath(pathname) ==
    \E e \in notificationEvents : pathname = apiBasePath \o "notify/ws/" \o e

\* C18: an upgrade is accepted and a channel constructed only if the
\* pathname is <apiBasePath>notify/ws/<eventName> with eventName in the
\* closed set and the client offered the subprotocol notify.catenis.io;
\* every other upgrade is refused and constructs no channel; and every
\* channel constructed has an eventName of the closed set.
C18_UpgradeAccepted ==
    \A c \in ChannelIds :
        /\ Constructed(channels[c])
            => /\ IsNotificationPath(channels[c].req.url.pathname)
               /\ notifyWSSubprotocol \in channels[c].offered
               /\ channels[c].eventName \in notificationEvents
        /\ Upgraded(channels[c])
                /\ ~(/\ IsNotificationPath(channels[c].req.url.pathname)
                     /\ notifyWSSubprotocol \in channels[c].offered)
            => channels[c].readyState = "destroyed"

\* A channel is open for a client that offered no subprotocol.
C18_Witness ==
    \E c \in ChannelIds :
        /\ channels[c].readyState = "OPEN"
        /\ channels[c].offered = {}
        /\ channels[c].protocol = ""

\* The part of the gate that is the server's own: a channel is constructed
\* exactly for the notification paths, with the event name of its path.
UpgradePathGate ==
    \A c \in ChannelIds :
        Upgraded(channels[c])
            => /\ Constructed(channels[c])
                    <=> IsNotificationPath(channels[c].req.url.pathname)
               /\ Constructed(channels[c])
                    => /\ channels[c].eventName \in notificationEvents
                       /\ channels[c].req.url.pathname
                            = apiBasePath \o "notify/ws/" \o channels[c].eventName
               /\ ~Constructed(channels[c]) => channels[c].readyState = "destroyed"

---------------------------------------------------------------------------
(* closeAllClients                                                         *)

\* The step in which POST /notify-close is handled.
NotifyCloseHandled == cmdPc = "idle" /\ cmdReq' = NotifyCloseCommand

ClosedByEndUser(ch) ==
    /\ ch.readyState = "CLOSING"
    /\ ch.closed = CloseFrame(1001, "Connection closed by end user")

PendingDispatch == DOMAIN dispatchNotifyMsgTimeouts

\* C17: closeAllClients closes every connected client, authenticated or
\* not, with code 1001 and reason "Connection closed by end user", and
\* cancels every pending dispatch timer: right after it PendingDispatch is
\* empty and no dispatch timer set before it is left to fire.
C17_CloseAllClients ==
    [][ NotifyCloseHandled =>
            /\ \A c \in ChannelIds :
                    channels[c].readyState = "OPEN" => ClosedByEndUser(channels'[c])
            /\ PendingDispatch' = {}
            /\ \A t \in timers' : t.kind # "dispatch"
            /\ \A c \in ChannelIds : channels'[c].sent = channels[c].sent
      ]_vars

\* POST /notify-close has closed an authenticated client and one that is
\* not, the first having run autoDispatchMessages without data being sent.
C17_Witness ==
    /\ cmdReq = NotifyCloseCommand
    /\ cmdPc = "done"
    /\ \E c1, c2 \in ChannelIds :
        /\ ClosedByEndUser(channels[c1]) /\ authenticated(channels[c1])
        /\ channels[c1].sent = <<notifyChannelOpenMsg>>
        /\ channels[c1].sending = 0
        /\ ClosedByEndUser(channels[c2]) /\ ~authenticated(channels[c2])

---------------------------------------------------------------------------
(* The authentication deadline                                             *)

\* The step in which the deadline timer of channel c fires.
DeadlineFires(c) ==
    channels'[c].trace = Append(channels[c].trace, "_authenticationTimeout")

DeadlineFrame == CloseFrame(1002, "Failed to receive authentication message")

LastStep(ch) == IF ch.trace = <<>> THEN "" ELSE ch.trace[Len(ch.trace)]

C19_WitnessAuthenticated ==
    \E c \in ChannelIds :
        /\ LastStep(channels[c]) = "_authenticationTimeout"
        /\ authenticated(channels[c])
        /\ channels[c].readyState = "OPEN"
        /\ channels[c].closed = NoCloseFrame

---------------------------------------------------------------------------
(* The successful handshake                                                *)

\* The step in which channel c becomes authenticated.
HandshakeSucceeds(c) == ~authenticated(channels[c]) /\ authenticated(channels'[c])

Indexed(index, c, ch) ==
    /\ ch.deviceId.str \in DOMAIN index
    /\ ch.eventName \in DOMAIN index[ch.deviceId.str]
    /\ c \in index[ch.deviceId.str][ch.eventName]

\* What the handshake does, in order.
HandshakeSteps == <<"deviceId", "saveNotificationChannel", "_startHeartbeatCheck", "send">>

HandshakeInOrder(c) ==
    /\ channels'[c].trace = channels[c].trace \o HandshakeSteps
    /\ Indexed(deviceEventNotifyChannels', c, channels'[c])
    /\ ChannelTimer("heartbeat", c, heartbeatInterval) \in timers'
    /\ channels'[c].sent = Append(channels[c].sent, notifyChannelOpenMsg)

Positions(ch, step) == { i \in 1..Len(ch.trace) : ch.trace[i] = step }

\* autoDispatchMessages has run at most once, right after the callback of
\* a send, the frame NOTIFICATION_CHANNEL_OPEN having been sent.
AutoDispatchAfterSend(ch) ==
    /\ Cardinality(Positions(ch, "autoDispatchMessages")) <= 1
    /\ \A i \in Positions(ch, "autoDispatchMessages") :
        /\ i > 1
        /\ ch.trace[i - 1] = "sendCompleted"
        /\ ch.sent # <<>>
        /\ ch.sent[1] = notifyChannelOpenMsg
        /\ \E j \in Positions(ch, "send") : j < i - 1

\* C20: on a successful handshake the channel records the deviceId, is put
\* in the index under its device and event, arms its heartbeat timer and
\* sends NOTIFICATION_CHANNEL_OPEN, in this order; autoDispatchMessages
\* runs for it only after that send has completed, and at most once.
C20_HandshakeOrder ==
    [][ \A c \in ChannelIds :
            /\ HandshakeSucceeds(c) => HandshakeInOrder(c)
            /\ AutoDispatchAfterSend(channels'[c])
      ]_vars

\* A channel the server was closing has been authenticated and indexed, and
\* NOTIFICATION_CHANNEL_OPEN was not sent on it.
C20_Witness ==
    \E c \in ChannelIds :
        /\ authenticated(channels[c])
        /\ channels[c].readyState = "CLOSING"
        /\ Indexed(deviceEventNotifyChannels, c, channels[c])
        /\ ChannelTimer("heartbeat", c, heartbeatInterval) \in timers
        /\ channels[c].sent = <<>>

\* On a socket that is open when the frame arrives the handshake is as
\* claimed.
HandshakeOnOpenSocket ==
    [][ \A c \in ChannelIds :
            /\ HandshakeSucceeds(c) /\ channels[c].readyState = "OPEN"
                => HandshakeInOrder(c)
            /\ AutoDispatchAfterSend(channels'[c])
      ]_vars


---------------------------------------------------------------------------
(* The handshake on its own, with frames of every shape                    *)

\* A text frame whose JSON object holds a number under authorization, as
\* {"x-bcot-timestamp": "...", "authorization": 5}.
NumberAuthorizationFrame(timestamp) ==
    TypedClientFrame(TRUE, TRUE, timestamp,
                     Header(AbsentAuthorization.value), "number")

\* The frames of SpecWs, an authentication frame whose timestamp is out of
\* the window, and frames with a number under authorization.
HandshakeFrames(req) ==
    ClientFrames(req)
    \cup { ClientFrame(TRUE, TRUE, Header(TimestampStr(2022, 12, 31, 23, 54, 58)),
                       AuthenticationFrame(req, Secret1).authorization),
           NumberAuthorizationFrame(Header(Timestamp0)),
           NumberAuthorizationFrame(Header(TimestampGarbage)) }

NextHandshake ==
    \/ ~Observing /\ \E data \in WsCredentialsDocs : SetCredentials(data)
    \/ \E c \in ChannelIds :
          channels[c].readyState = "none"
              /\ \E req \in ClientUpgradeRequests : Upgrade(c, req)
    \/ \E c \in ChannelIds :
          channels[c].readyState \in {"OPEN", "CLOSING"}
              /\ \E frame \in HandshakeFrames(UpgradeHttp(NotifyUrl)) :
                    ClientSends(c, frame)
    \/ \E c \in ChannelIds : AuthenticationTimeout(c)
    \/ \E c \in ChannelIds : SocketCloses(c)

SpecHandshake == Init /\ [][NextHandshake]_vars

---------------------------------------------------------------------------
(* C21: the close frame of a failed handshake                              *)

\* The frame is a text frame holding a JSON object with both fields, the
\* one under authorization a string.
WellShaped(frame) ==
    frame.isString /\ frame.isAuthentication /\ frame.typeofAuthorization = "string"

\* What authenticateRequest returns for the request of channel c with the
\* two strings of the frame in its headers.
FrameAuthResult(c, frame) ==
    authenticateRequest(
        [channels[c].req EXCEPT !.headers.timestamp = frame.timestamp,
                                !.headers.authorization = frame.authorization],
        UndefinedBody, deviceCredentials, clock)

\* The frame reaches the open socket of channel c, not authenticated, and
\* does not authenticate it.
HandshakeFails(c, frame) ==
    /\ ClientSends(c, frame)
    /\ channels[c].readyState = "OPEN"
    /\ ~authenticated(channels[c])
    /\ ~authenticated(channels'[c])

\* C21: a failed handshake closes the socket with 1011 and the message of
\* the authentication when authenticateRequest returned code 500, with 1002
\* and that message for every other authentication failure, and with 1002
\* "Invalid authentication message" when the frame is not a text frame
\* holding a JSON object with both string fields; a wrongly shaped frame is
\* never reported with 1011.
C21_HandshakeFailureClose ==
    [][ \A c \in ChannelIds : \A frame \in HandshakeFrames(UpgradeHttp(NotifyUrl)) :
          HandshakeFails(c, frame)
            => channels'[c].closed =
                 IF WellShaped(frame)
                 THEN CloseFrame(IF FrameAuthResult(c, frame).code = 500
                                 THEN 1011 ELSE 1002,
                                 FrameAuthResult(c, frame).message)
                 ELSE CloseFrame(1002, "Invalid authentication message")
      ]_vars

\* A channel was closed with 1011 "Internal server error".
C21_Witness ==
    \E c \in ChannelIds :
        /\ channels[c].readyState = "CLOSING"
        /\ channels[c].closed = CloseFrame(1011, "Internal server error")

\* For the frames whose fields are strings, and for the frames without the
\* two fields, the close frame is as C21 says.
StringFramesCloseAsStated ==
    [][ \A c \in ChannelIds : \A frame \in HandshakeFrames(UpgradeHttp(NotifyUrl)) :
          HandshakeFails(c, frame) /\ frame.typeofAuthorization = "string"
            => channels'[c].closed =
                 IF WellShaped(frame)
                 THEN CloseFrame(1002, FrameAuthResult(c, frame).message)
                 ELSE CloseFrame(1002, "Invalid authentication message")
      ]_vars


---------------------------------------------------------------------------
(* The channels with their heartbeat                                       *)

\* The authentication frame of a client with the secret of the device, and
\* a text frame that is not one.
HeartbeatFrames(req) ==
    { AuthenticationFrame(req, Secret1),
      ClientFrame(TRUE, FALSE, AbsentTimestamp, AbsentAuthorization) }

NextHeartbeat ==
    \/ ~Observing /\ \E data \in WsCredentialsDocs : SetCredentials(data)
    \/ \E data \in WsNotifyContextDocs : SetNotifyContext(data)
    \/ \E c \in ChannelIds :
          channels[c].readyState = "none"
              /\ \E req \in ClientUpgradeRequests : Upgrade(c, req)
    \/ \E c \in ChannelIds :
          channels[c].readyState \in {"OPEN", "CLOSING"}
              /\ \E frame \in HeartbeatFrames(UpgradeHttp(NotifyUrl)) :
                    ClientSends(c, frame)
    \/ \E c \in ChannelIds : SendCompletes(c)
    \/ \E c \in ChannelIds : AuthenticationTimeout(c)
    \/ \E c \in ChannelIds : HeartbeatTick(c)
    \/ \E c \in ChannelIds : Pong(c)
    \/ \E c \in ChannelIds : SocketCloses(c)
    \/ \E t \in timers : DispatchTimeout(t)

SpecHeartbeat == Init /\ [][NextHeartbeat]_vars


---------------------------------------------------------------------------
(* C22: the heartbeat                                                      *)

\* The heartbeat terminates channel c in this step.
TerminatedNow(c) == ~channels[c].terminated /\ channels'[c].terminated

\* C22: a heartbeat tick on an authenticated channel terminates the socket
\* if the liveness flag is false, and otherwise clears the flag and sends a
\* ping; a pong sets the flag. So a peer that stops answering is terminated
\* no later than the second tick after it stopped, and a peer that answers
\* every ping is never terminated by the heartbeat.
C22_Heartbeat ==
    [][ \A c \in ChannelIds :
          /\ HeartbeatTick(c)
                => /\ authenticated(channels[c])
                   /\ IF ~channels[c].isAlive
                      THEN TerminatedNow(c) /\ channels'[c].pings = channels[c].pings
                      ELSE /\ ~channels'[c].isAlive
                           /\ ~channels'[c].terminated
                           /\ channels[c].readyState = "OPEN"
                                => channels'[c].pings = channels[c].pings + 1
          /\ Pong(c) => channels'[c].isAlive
          /\ channels'[c].unanswered >= 2 => channels'[c].terminated
          /\ TerminatedNow(c) => HeartbeatTick(c) /\ channels[c].unanswered >= 1
      ]_vars

\* A channel answered its first ping, did not answer the second and was
\* terminated at the tick after it.
C22_Witness ==
    \E c \in ChannelIds :
        /\ channels[c].terminated
        /\ channels[c].pings = 2
        /\ channels[c].unanswered = 2

\* A channel has answered two pings and is open.
C22_WitnessAnswered ==
    \E c \in ChannelIds :
        /\ channels[c].readyState = "OPEN"
        /\ channels[c].pings = 2
        /\ channels[c].isAlive
        /\ ~channels[c].terminated


---------------------------------------------------------------------------
(* C23: a closed channel                                                   *)

\* The channels in some set of the index.
IndexedChannels(index) ==
    UNION { UNION { index[d][e] : e \in DOMAIN index[d] } : d \in DOMAIN index }

\* Channel c has no heartbeat timer and is in no set of the index.
Discarded(c) ==
    /\ ChannelTimer("heartbeat", c, heartbeatInterval) \notin timers
    /\ c \notin IndexedChannels(deviceEventNotifyChannels)

\* C23: when the close event of a channel is handled its heartbeat timer is
\* stopped and it is removed from the index; from then on it is in no set of
\* the index, no heartbeat tick occurs for it and no frame is sent on it.
C23_ClosedChannelDiscarded ==
    [][ \A c \in ChannelIds :
          /\ SocketCloses(c) => channels'[c].readyState = "CLOSED" /\ Discarded(c)'
          /\ channels[c].readyState = "CLOSED"
                => /\ channels'[c].readyState = "CLOSED"
                   /\ Discarded(c)'
                   /\ ~HeartbeatTick(c)
                   /\ channels'[c].sent = channels[c].sent
                   /\ channels'[c].pings = channels[c].pings
      ]_vars

\* An authenticated channel with its heartbeat, terminated or closed by the
\* client, has closed while the other channel of its device and event is
\* open, indexed, and has been sent the data of a dispatch.
C23_Witness ==
    \E c, b \in ChannelIds :
        /\ channels[c].readyState = "CLOSED"
        /\ authenticated(channels[c])
        /\ channels[c].pings > 0
        /\ channels[b].readyState = "OPEN"
        /\ b \in IndexedChannels(deviceEventNotifyChannels)
        /\ Len(channels[b].sent) > Len(channels[c].sent)


---------------------------------------------------------------------------
(* The index, with two devices and two events                              *)

NotifyUrlRead == apiBasePath \o "notify/ws/sent-msg-read"

IndexUpgradeRequests ==
    { UpgradeRequest(UpgradeHttp(pathname), {notifyWSSubprotocol}) :
        pathname \in {NotifyUrl, NotifyUrlRead} }

IndexCredentialsDocs ==
    { CredentialsDoc(TRUE, <<SingleDeviceCredentials(Device1, Secret1),
                             SingleDeviceCredentials(Device2, Secret2)>>) }

\* The authentication frame a device makes for the upgrade request req.
DeviceAuthenticationFrame(req, deviceId, secret) ==
    ClientFrame(TRUE, TRUE, Header(Timestamp0),
        ClientAuthorization([req EXCEPT !.headers.timestamp = Header(Timestamp0)],
                            "Credential", deviceId, SignDate0, secret, ""))

\* Each device's frame for the request of the channel, and a frame of
\* Device1 signed with the secret of Device2.
IndexFrames(req) ==
    { DeviceAuthenticationFrame(req, Device1, Secret1),
      DeviceAuthenticationFrame(req, Device2, Secret2),
      DeviceAuthenticationFrame(req, Device1, Secret2) }

NextIndex ==
    \/ ~Observing /\ \E data \in IndexCredentialsDocs : SetCredentials(data)
    \/ \E c \in ChannelIds :
          channels[c].readyState = "none"
              /\ \E req \in IndexUpgradeRequests : Upgrade(c, req)
    \/ \E c \in ChannelIds :
          channels[c].readyState \in {"OPEN", "CLOSING"}
              /\ \E frame \in IndexFrames(channels[c].req) : ClientSends(c, frame)
    \/ \E c \in ChannelIds : AuthenticationTimeout(c)
    \/ \E c \in ChannelIds : HeartbeatTick(c)
    \/ \E c \in ChannelIds : SocketCloses(c)

SpecIndex == Init /\ [][NextIndex]_vars

---------------------------------------------------------------------------
(* C24: the index holds no empty set and no empty map                      *)

\* C24: the index never holds an empty set of channels, nor a device with
\* an empty map of events, whatever handshakes and closes have happened.
C24_IndexPruned ==
    \A d \in DOMAIN deviceEventNotifyChannels :
        /\ DOMAIN deviceEventNotifyChannels[d] # {}
        /\ \A e \in DOMAIN deviceEventNotifyChannels[d] :
              deviceEventNotifyChannels[d][e] # {}

\* The last channel of an event of a device has closed while the device has
\* a channel on another event.
C24_Witness ==
    \E c, b \in ChannelIds :
        /\ channels[c].readyState = "CLOSED"
        /\ authenticated(channels[c])
        /\ channels[b].deviceId = channels[c].deviceId
        /\ channels[b].eventName # channels[c].eventName
        /\ DOMAIN deviceEventNotifyChannels = {channels[c].deviceId.str}
        /\ DOMAIN deviceEventNotifyChannels[channels[c].deviceId.str]
              = {channels[b].eventName}
        /\ deviceEventNotifyChannels[channels[c].deviceId.str][channels[b].eventName]
              = {b}

\* The last channel of a device has closed while another device has one.
C24_WitnessDevice ==
    \E c, b \in ChannelIds :
        /\ channels[c].readyState = "CLOSED"
        /\ authenticated(channels[c])
        /\ authenticated(channels[b])
        /\ channels[b].deviceId # channels[c].deviceId
        /\ DOMAIN deviceEventNotifyChannels = {channels[b].deviceId.str}


---------------------------------------------------------------------------
(* C25: one dispatch timer for a device and an event                       *)

DispatchTimers == { t \in timers : t.kind = "dispatch" }

\* The channels that _dispatchNotifyMessage goes through for the pair.
ChannelsOf(index, deviceId, eventName) ==
    IF deviceId \in DOMAIN index /\ eventName \in DOMAIN index[deviceId]
    THEN index[deviceId][eventName]
    ELSE {}

\* The timer t fires and its data is sent once on every open channel indexed
\* under its device and event, and on no other.
DeliveredOnce(t) ==
    \A c \in ChannelIds :
        channels'[c].sent =
            IF /\ c \in ChannelsOf(deviceEventNotifyChannels, t.deviceId, t.eventName)
               /\ channels[c].readyState = "OPEN"
            THEN Append(channels[c].sent, t.data)
            ELSE channels[c].sent

\* C25: at most one dispatch timer is pending for a device and an event: two
\* channels of the same pair that authenticate while a delayed dispatch is
\* pending set only one timer, and when it fires each of them receives the
\* data exactly once.
C25_OneDispatchTimer ==
    [][ /\ \A t, u \in DispatchTimers' :
              t.deviceId = u.deviceId /\ t.eventName = u.eventName => t = u
        /\ DispatchTimers' = { dispatchNotifyMsgTimeouts'[k] : k \in PendingDispatch' }
        /\ \A t \in DispatchTimers :
              DispatchTimeout(t)
                => /\ DeliveredOnce(t)
                   /\ DispatchKey(t.deviceId, t.eventName) \notin PendingDispatch'
                   /\ DispatchTimers' = DispatchTimers \ {t}
      ]_vars

\* Both channels are open on the same device and event, autoDispatchMessages
\* has run for both, no timer is pending, and each has been sent the open
\* message and then the data, once.
C25_Witness ==
    /\ DispatchTimers = {}
    /\ \A c \in ChannelIds :
          /\ channels[c].readyState = "OPEN"
          /\ Positions(channels[c], "autoDispatchMessages") # {}
          /\ channels[c].sent = <<notifyChannelOpenMsg, Data1>>
    /\ notifyContext.installed
    /\ notifyContext.value.map[Device1]["new-msg-received"].timeout = Timeout(5)


---------------------------------------------------------------------------
(* Dispatches, with notification contexts of every kind                    *)

\* Contexts for the device and the event of the channels with a timeout, a
\* timeout of zero, a negative one, null and none; and contexts without an
\* entry for them: another event of the device, and another device.
DispatchNotifyContextDocs ==
    { NotifyContext("object",
          OneDevice(Device1, OneEvent("new-msg-received", info))) :
        info \in { NotificationMessageInfo(Data1, Timeout(5)),
                   NotificationMessageInfo(Data2, Timeout(0)),
                   NotificationMessageInfo(Data2, Timeout(-1)),
                   NotificationMessageInfo(Data2, NoTimeout("null")),
                   NotificationMessageInfo(Data1, NoTimeout("undefined")) } }
    \cup { NotifyContext("object",
              OneDevice(Device1,
                  OneEvent("sent-msg-read", NotificationMessageInfo(Data1, Timeout(5))))),
           NotifyContext("object",
              OneDevice(Device2,
                  OneEvent("new-msg-received",
                           NotificationMessageInfo(Data2, NoTimeout("undefined"))))) }

NextDispatch ==
    \/ ~Observing /\ \E data \in WsCredentialsDocs : SetCredentials(data)
    \/ \E data \in DispatchNotifyContextDocs : SetNotifyContext(data)
    \/ \E c \in ChannelIds :
          channels[c].readyState = "none"
              /\ Upgrade(c, UpgradeRequest(UpgradeHttp(NotifyUrl), {notifyWSSubprotocol}))
    \/ \E c \in ChannelIds :
          channels[c].readyState \in {"OPEN", "CLOSING"}
              /\ ClientSends(c, AuthenticationFrame(UpgradeHttp(NotifyUrl), Secret1))
    \/ \E c \in ChannelIds : SendCompletes(c)
    \/ \E c \in ChannelIds : AuthenticationTimeout(c)
    \/ \E c \in ChannelIds : SocketCloses(c)
    \/ \E t \in timers : DispatchTimeout(t)

SpecDispatch == Init /\ [][NextDispatch]_vars


---------------------------------------------------------------------------
(* C26: the delayed dispatch                                               *)

\* The notification context has an entry for the device and the event of
\* channel c.
HasEntry(c) ==
    /\ notifyContext.installed
    /\ channels[c].deviceId.str \in DOMAIN notifyContext.value.map
    /\ channels[c].eventName
          \in DOMAIN notifyContext.value.map[channels[c].deviceId.str]

EntryOf(c) == notifyContext.value.map[channels[c].deviceId.str][channels[c].eventName]

KeyOf(c) == DispatchKey(channels[c].deviceId.str, channels[c].eventName)

\* The timeout of the entry is greater than 0.
Delayed(info) == info.timeout.tag = "number" /\ info.timeout.num > 0

NothingSent == \A b \in ChannelIds : channels'[b].sent = channels[b].sent

NothingScheduled ==
    /\ timers' = timers
    /\ dispatchNotifyMsgTimeouts' = dispatchNotifyMsgTimeouts

\* One timer more is armed, for the pair of channel c with the data and the
\* timeout of its entry, and it is the pending entry of the pair.
OneTimerScheduled(c) ==
    \E t \in timers' :
        /\ t \notin timers
        /\ timers' = timers \cup {t}
        /\ t.kind = "dispatch"
        /\ t.deviceId = channels[c].deviceId.str
        /\ t.eventName = channels[c].eventName
        /\ t.data = EntryOf(c).data
        /\ t.delay = EntryOf(c).timeout.num
        /\ dispatchNotifyMsgTimeouts' = MapSet(dispatchNotifyMsgTimeouts, KeyOf(c), t)

\* The data of timer t is sent on every channel indexed under its pair that
\* is open and authenticated, and on no other.
DeliveredToOpenAuthenticated(t) ==
    \A c \in ChannelIds :
        channels'[c].sent =
            IF /\ c \in ChannelsOf(deviceEventNotifyChannels, t.deviceId, t.eventName)
               /\ channels[c].readyState = "OPEN"
               /\ authenticated(channels[c])
            THEN Append(channels[c].sent, t.data)
            ELSE channels[c].sent

\* C26: autoDispatchMessages for an authenticated channel whose entry has a
\* timeout greater than 0 sets one one-shot timer if none is pending for the
\* pair; when the timer fires the pending entry is removed and the data is
\* delivered to every channel indexed under the pair that is open and
\* authenticated then. With no notification context, or no entry for the
\* pair, nothing is scheduled and nothing is sent.
C26_DelayedDispatch ==
    [][ /\ \A c \in ChannelIds :
              SendCompletes(c)
                => IF ~HasEntry(c)
                   THEN NothingScheduled /\ NothingSent
                   ELSE Delayed(EntryOf(c))
                          => /\ NothingSent
                             /\ IF KeyOf(c) \in PendingDispatch
                                THEN NothingScheduled
                                ELSE OneTimerScheduled(c)
        /\ \A t \in DispatchTimers :
              DispatchTimeout(t)
                => /\ t \notin timers'
                   /\ dispatchNotifyMsgTimeouts' =
                        MapDelete(dispatchNotifyMsgTimeouts,
                                  DispatchKey(t.deviceId, t.eventName))
                   /\ DeliveredToOpenAuthenticated(t)
      ]_vars

\* A timer set for the data of an entry with a timeout has fired: the data
\* is the last frame sent on an open channel, the other channel, indexed
\* and closing at that time, was sent nothing.
C26_Witness ==
    \E c, b \in ChannelIds :
        /\ channels[c].readyState = "OPEN"
        /\ channels[c].sent = <<notifyChannelOpenMsg, Data1>>
        /\ authenticated(channels[b])
        /\ channels[b].sent = <<>>
        /\ Positions(channels[b], "saveNotificationChannel") # {}
        /\ DispatchTimers = {}
        /\ HasEntry(c) /\ EntryOf(c) = NotificationMessageInfo(Data1, Timeout(5))

\* autoDispatchMessages has run for a channel of Device1 on new-msg-received
\* with no entry for them: nothing is pending and nothing but the open
\* message was sent.
C26_WitnessNoEntry ==
    \E c \in ChannelIds :
        /\ Positions(channels[c], "autoDispatchMessages") # {}
        /\ channels[c].sent = <<notifyChannelOpenMsg>>
        /\ ~HasEntry(c)
        /\ timers = {}


---------------------------------------------------------------------------
(* C27: the immediate dispatch                                             *)

\* The data of the entry of channel c is sent, in this step, on every open
\* channel indexed under its pair, and on no other.
DeliveredNow(c) ==
    \A b \in ChannelIds :
        channels'[b].sent =
            IF /\ b \in ChannelsOf(deviceEventNotifyChannels,
                                   channels[c].deviceId.str, channels[c].eventName)
               /\ channels[b].readyState = "OPEN"
            THEN Append(channels[b].sent, EntryOf(c).data)
            ELSE channels[b].sent

\* C27: when the timeout of the entry is absent or zero, autoDispatchMessages
\* delivers the data at once to all the channels indexed under the pair,
\* sets no timer and makes no pending entry.
C27_ImmediateDispatch ==
    [][ \A c \in ChannelIds :
          SendCompletes(c) /\ HasEntry(c)
            /\ (EntryOf(c).timeout.tag \in {"undefined", "null"} \/ EntryOf(c).timeout.num = 0)
            => /\ NothingScheduled
               /\ DeliveredNow(c)
      ]_vars

\* With a timeout of zero installed and nothing pending, both channels are
\* open and the second has been sent the data once, the first twice: the
\* dispatch of each went at once to the channels indexed then.
C27_Witness ==
    \E c, b \in ChannelIds :
        /\ HasEntry(c) /\ EntryOf(c) = NotificationMessageInfo(Data2, Timeout(0))
        /\ channels[c].readyState = "OPEN" /\ channels[b].readyState = "OPEN"
        /\ channels[c].sent = <<notifyChannelOpenMsg, Data2, Data2>>
        /\ channels[b].sent = <<notifyChannelOpenMsg, Data2>>
        /\ DispatchTimers = {}
        /\ PendingDispatch = {}


---------------------------------------------------------------------------
(* C28: frames are sent on open sockets of authenticated channels only     *)

\* The channels that a dispatch for the pair reaches: indexed, open and
\* authenticated.
Receivers(deviceId, eventName) ==
    { c \in ChannelsOf(deviceEventNotifyChannels, deviceId, eventName) :
        channels[c].readyState = "OPEN" /\ authenticated(channels[c]) }

\* C28: a frame, NOTIFICATION_CHANNEL_OPEN or data, is sent on a channel
\* only if its socket is OPEN and the channel is authenticated; on a
\* closing, closed or unauthenticated channel the send is skipped, and the
\* other channels of the same dispatch are sent the data all the same.
C28_SendOnlyOpenAuthenticated ==
    [][ /\ \A c \in ChannelIds :
              channels'[c].sent # channels[c].sent
                => /\ channels[c].readyState = "OPEN"
                   /\ channels'[c].readyState = "OPEN"
                   /\ authenticated(channels'[c])
                   /\ Len(channels'[c].sent) = Len(channels[c].sent) + 1
        /\ \A t \in DispatchTimers :
              DispatchTimeout(t)
                => \A c \in Receivers(t.deviceId, t.eventName) :
                      channels'[c].sent = Append(channels[c].sent, t.data)
        /\ \A c \in ChannelIds :
              SendCompletes(c) /\ HasEntry(c) /\ ~Delayed(EntryOf(c))
                => \A b \in Receivers(channels[c].deviceId.str, channels[c].eventName) :
                      channels'[b].sent = Append(channels[b].sent, EntryOf(c).data)
      ]_vars

\* A dispatch went through a set holding a closing channel and an open one:
\* the closing one, authenticated and indexed, was sent nothing, the open
\* one was sent the data.
C28_Witness ==
    \E c, b \in ChannelIds :
        /\ channels[c].readyState = "OPEN"
        /\ channels[c].sent = <<notifyChannelOpenMsg, Data2>>
        /\ channels[b].readyState = "CLOSING"
        /\ b \in ChannelsOf(deviceEventNotifyChannels, Device1, "new-msg-received")
        /\ authenticated(channels[b])
        /\ channels[b].sent = <<>>


---------------------------------------------------------------------------
(* C29: the order of the checks of the parse                               *)

\* The six checks in the order of C29.
ParseCheckOrder ==
    << "parse_err_missing_headers", "parse_err_malformed_timestamp",
       "parse_err_timestamp_out_of_bounds", "parse_err_malformed_auth_header",
       "parse_err_malformed_sign_date", "parse_err_sign_date_out_of_bounds" >>

\* Whether the headers of the call fail the check, taken on its own; a
\* timestamp or a date that is no date has no place in the windows.
FailsCheck(code) ==
    LET auth == AuthHeaders.authorization.value
    IN  CASE code = "parse_err_missing_headers" -> ~AuthHeadersPresent
          [] code = "parse_err_malformed_timestamp" ->
                ~TimestampIsValid(AuthHeaders.timestamp.value)
          [] code = "parse_err_timestamp_out_of_bounds" ->
                /\ TimestampIsValid(AuthHeaders.timestamp.value)
                /\ TimestampOffset < -300 \/ TimestampOffset > 300
          [] code = "parse_err_malformed_auth_header" -> ~authRegexMatches(auth)
          [] code = "parse_err_malformed_sign_date" ->
                ~IsValidDate(auth.signDate.y, auth.signDate.m, auth.signDate.d)
          [] OTHER ->
                /\ IsValidDate(auth.signDate.y, auth.signDate.m, auth.signDate.d)
                /\ SignDateAge < 0 \/ SignDateAge > 6

FailedChecks == { i \in 1..Len(ParseCheckOrder) : FailsCheck(ParseCheckOrder[i]) }

\* C29: the parse makes its checks in the order missing headers, malformed
\* timestamp, timestamp out of bounds, malformed authorization, malformed
\* sign date, sign date out of bounds, and throws the error of the first
\* one that fails; it returns the authentication data only when all six
\* pass.
C29_FirstFailingParseCheck ==
    AuthParsed =>
        IF FailedChecks = {}
        THEN authCall.thrown = NoThrown
        ELSE authCall.thrown =
                Thrown(TRUE, ParseCheckOrder[CHOOSE i \in FailedChecks :
                                                \A j \in FailedChecks : i <= j])

\* A timestamp out of the window with a malformed authorization is reported
\* as timestamp out of bounds.
C29_Witness ==
    /\ AuthParsed
    /\ {3, 4} \subseteq FailedChecks
    /\ authCall.thrown = Thrown(TRUE, "parse_err_timestamp_out_of_bounds")

\* All six checks pass and the parse returns.
C29_WitnessAllPass ==
    AuthParsed /\ FailedChecks = {} /\ authCall.thrown = NoThrown


---------------------------------------------------------------------------
(* C30: the authentication deadline of a settled channel                   *)

DeadlineArmed(c) == ChannelTimer("auth", c, authMsgTimeout) \in timers

\* C30: the timer of the authentication deadline is cancelled when the
\* channel authenticates and when it closes: in every state where a channel
\* is authenticated or closed its timer is not armed, and so never fires.
C30_DeadlineCancelled ==
    \A c \in ChannelIds :
        authenticated(channels[c]) \/ channels[c].readyState = "CLOSED"
            => ~DeadlineArmed(c)

\* A channel has authenticated and closed, and its deadline is still armed.
C30_Witness ==
    \E c \in ChannelIds :
        /\ authenticated(channels[c])
        /\ channels[c].readyState = "CLOSED"
        /\ DeadlineArmed(c)

\* What does hold: the close of a channel that has not authenticated clears
\* the timer, and a deadline that fires on an authenticated or closed
\* channel changes nothing of it.
DeadlineClearedOrIdle ==
    [][ \A c \in ChannelIds :
          /\ channels'[c].readyState = "CLOSED" /\ ~authenticated(channels'[c])
                => ~DeadlineArmed(c)'
          /\ AuthenticationTimeout(c)
                /\ (authenticated(channels[c]) \/ channels[c].readyState = "CLOSED")
                => /\ channels'[c].readyState = channels[c].readyState
                   /\ channels'[c].closed = channels[c].closed
                   /\ channels'[c].sent = channels[c].sent
                   /\ deviceEventNotifyChannels' = deviceEventNotifyChannels
      ]_vars


---------------------------------------------------------------------------
(* C31: the body is read to its end                                        *)

\* C31: when expectedRequest.data is set, the body the handler compares and
\* hands to the signer is the concatenation of all the chunks of the
\* request, never a prefix of it.
C31_BodyReadToEnd ==
    ApiMatched /\ Did("readData") => apiBody = BodyRead(RawBody)

\* The handler went on with the first chunk of a body of two chunks, found
\* it equal to the installed data and sent the installed response.
C31_Witness ==
    /\ ApiMatched /\ Did("readData") /\ Did("respond")
    /\ Len(apiReq.chunks) = 2
    /\ apiBody = BodyRead(apiReq.chunks[1])
    /\ apiBody.bytes = CurrentContext.expectedRequest.data.str

\* What is read is the chunks that had arrived at the first 'readable' event.
BodyReadIsPrefix ==
    ApiMatched /\ Did("readData") =>
        \E n \in ReadableChunks(apiReq) : apiBody = BodyRead(readData(apiReq, n))


---------------------------------------------------------------------------
(* The signer's input: requests and frames signed over several bodies      *)

SignerContextDocs ==
    { HttpContext("POST", Path1, data, Undefined, NoResponse("undefined")) :
        data \in {Str(Data1), Undefined} }

\* POST requests for Path1 with no body, a body of one chunk and a body of
\* two, each signed by Device1 over no body, the first chunk or both.
SignerRequests ==
    { Signed(HttpRequest("POST", Url1,
                 Headers("localhost:3500", Header("application/json"), FALSE,
                         Header(Timestamp0), AbsentAuthorization),
                 chunks),
             "Credential", Device1, SignDate0, Secret1, body) :
        chunks \in { <<>>, <<Data1>>, <<Data1, "garbage">> },
        body \in { "", Data1, Data1 \o "garbage" } }

\* The frame of a client that signs the upgrade request req with the
\* timestamp over the body.
SignedFrame(req, timestamp, body) ==
    ClientFrame(TRUE, TRUE, Header(timestamp),
        ClientAuthorization([req EXCEPT !.headers.timestamp = Header(timestamp)],
                            "Credential", Device1, SignDate0, Secret1, body))

\* Frames signed over the empty body and over a body, with two timestamps,
\* and a frame signed for the URL of another event.
SignerFrames(req) ==
    { SignedFrame(req, timestamp, body) :
        timestamp \in {Timestamp0, TimestampEarly}, body \in {"", Data1} }
    \cup { SignedFrame(UpgradeHttp(NotifyUrlRead), Timestamp0, ""),
           SignedFrame([req EXCEPT !.method = "POST"], Timestamp0, ""),
           SignedFrame([req EXCEPT !.headers.host = "localhost:3501"], Timestamp0, "") }

\* One channel takes the handshakes.
SignerChannels == {1}

NextSigner ==
    \/ ~Observing /\ \E data \in SignerContextDocs : SetHttpContext(data)
    \/ ~Observing /\ \E data \in WsCredentialsDocs : SetCredentials(data)
    \/ apiPc = "idle" /\ \E req \in SignerRequests : ApiRequest(req)
    \/ apiPc = "reading" /\ \E n \in ReadableChunks(apiReq) : ApiReadable(n)
    \/ ApiForget
    \/ \E c \in SignerChannels :
          channels[c].readyState = "none"
              /\ Upgrade(c, UpgradeRequest(UpgradeHttp(NotifyUrl), {notifyWSSubprotocol}))
    \/ \E c \in SignerChannels :
          channels[c].readyState \in {"OPEN", "CLOSING"}
              /\ \E frame \in SignerFrames(UpgradeHttp(NotifyUrl)) : ClientSends(c, frame)
    \/ \E c \in SignerChannels : SocketCloses(c)

SpecSigner == Init /\ [][NextSigner]_vars

---------------------------------------------------------------------------
(* C32: what the signer is fed                                             *)

\* The signature of the device over the request with the timestamp header
\* and the body.
SignatureOver(req, timestamp, signDate, secret, body) ==
    signHttpRequest([req EXCEPT !.headers.timestamp = timestamp],
        [timestamp |-> timestamp.value, signDate |-> signDate,
         apiAccessSecret |-> secret, reqBody |-> body])

\* The body read for the body check, or the empty string when none was read.
SignerBody == IF Did("readData") THEN apiBody.bytes ELSE ""

\* The authorization's signature is the device's over the request and body.
SignedOver(req, timestamp, authorization, body) ==
    /\ authorization.value.deviceId \in DOMAIN deviceCredentials
    /\ authorization.value.signature =
          SignatureOver(req, timestamp, authorization.value.signDate,
                        deviceCredentials[authorization.value.deviceId], body)

\* C32: the body fed to the signer is the body read for the body check when
\* expectedRequest.data is set, and the empty string otherwise, even if the
\* request carries a body; the handshake signs the method, URL and host of
\* the upgrade request with the timestamp of the frame and an empty body.
C32_SignerInput ==
    [][ /\ (ApiMatched /\ Did("authenticate"))'
              => (Did("respond")' <=>
                    SignedOver(apiReq, apiReq.headers.timestamp,
                               apiReq.headers.authorization, SignerBody)')
        /\ \A c \in SignerChannels : \A frame \in SignerFrames(UpgradeHttp(NotifyUrl)) :
              ClientSends(c, frame) /\ ~authenticated(channels[c])
                => (authenticated(channels'[c]) <=>
                      SignedOver(upgrade(UpgradeRequest(UpgradeHttp(NotifyUrl),
                                                        {notifyWSSubprotocol})).req,
                                 frame.timestamp, frame.authorization, ""))
      ]_vars

\* With no data expected, a request carrying a body and signed over the
\* empty body has been authenticated and answered.
C32_Witness ==
    /\ ApiMatched /\ ~Did("readData") /\ Did("authenticate") /\ Did("respond")
    /\ apiReq.chunks = <<Data1>>
    /\ SignedOver(apiReq, apiReq.headers.timestamp, apiReq.headers.authorization, "")

\* With data expected, a request of two chunks signed over both was read up
\* to the first and refused by the signer.
C32_WitnessPrefix ==
    /\ ApiMatched /\ Did("readData") /\ Did("authenticate") /\ ~Did("respond")
    /\ apiReq.chunks = <<Data1, "garbage">>
    /\ apiBody.bytes = Data1
    /\ SignedOver(apiReq, apiReq.headers.timestamp, apiReq.headers.authorization,
                  Data1 \o "garbage")

\* A channel has authenticated with a frame whose timestamp is not the
\* clock's, signed over the empty body.
C32_WitnessHandshake ==
    \E c \in ChannelIds :
        /\ authenticated(channels[c])
        /\ channels[c].req.headers.timestamp = Header(TimestampEarly)


---------------------------------------------------------------------------
(* C33: what handling an API request leaves alone                          *)

\* A step of the API request handler: from the arrival of the request or
\* from its body read, to the body read or to its end.
ApiHandlerStep ==
    /\ apiPc \in {"idle", "reading"}
    /\ apiPc' \in {"reading", "done", "threw"}
    /\ apiPc' # apiPc

\* The context in place is, in method, path and data, the one the request
\* was matched against when it arrived.
MatchedAgainstCurrent == SeenOf(httpContext) = apiSeen

\* What the handler does with the same request, the same body being read, in
\* the state at hand.
HandledAgain ==
    LET o == handlerStart(apiReq, httpContext, deviceCredentials, clock)
    IN  IF o.pc = "reading"
        THEN handlerResume(apiReq, httpContext.value, apiBody.bytes,
                           deviceCredentials, clock, o.trace)
        ELSE o

\* C33: handling an API request, whatever its outcome, leaves HttpContext,
\* the credentials registry and NotifyContext as they were; a match does not
\* consume the expectation, so the same request handled again in the state
\* the handler leaves behind is answered as it was.
C33_HandlingLeavesContexts ==
    [][ ApiHandlerStep =>
          /\ UNCHANGED <<httpContext, deviceCredentials, notifyContext>>
          /\ (ApiMatched /\ MatchedAgainstCurrent)' =>
                /\ apiPc' = HandledAgain'.pc
                /\ apiRes' = HandledAgain'.written
      ]_vars

\* A matching request has been answered with the installed response and the
\* context is still installed.
C33_Witness ==
    /\ ApiMatched /\ Did("respond") /\ MatchedAgainstCurrent
    /\ httpContext.installed
    /\ apiRes = <<InstalledResponse(CurrentContext)>>

\* A request was refused, by authentication, and the context and credentials
\* are still installed.
C33_WitnessRefused ==
    /\ ApiMatched /\ Did("authenticate") /\ ~Did("respond")
    /\ httpContext.installed
    /\ deviceCredentials # EmptyMap


---------------------------------------------------------------------------
(* C34: a body-less request against a context that expects a body          *)

\* The request in flight had its body read and arrived without one.
EmptyBodyRead == ApiMatched /\ Did("readData") /\ apiReq.chunks = <<>>

\* C34: when expectedRequest.data is set and the request arrives with an
\* empty body, neither the content type nor the body is checked, and the
\* request goes on to authentication and to the installed response as a
\* request does whose body has matched.
C34_EmptyBodySkipsChecks ==
    EmptyBodyRead =>
        LET authenticate == CurrentContext.expectedRequest.authenticate
            o == authenticateAndRespond(apiReq, CurrentContext, apiBody,
                                        deviceCredentials, clock, <<>>)
        IN  /\ apiBody = BodyRead("")
            /\ ~Did("contentType") /\ ~Did("body")
            /\ Did("authenticate") <=> authenticate \in {Bool(TRUE), Undefined}
            /\ Did("respond") <=> (~Did("authenticate") \/ ~AuthResult.failed)
            /\ apiPc = o.pc
            /\ apiRes = o.written

\* A request without a body and without a JSON content type, against a
\* context that expects a body, has been authenticated and answered with the
\* installed response.
C34_Witness ==
    /\ EmptyBodyRead
    /\ DataInstalled
    /\ ~hasJSONContentType(apiReq)
    /\ Did("authenticate") /\ Did("respond")
    /\ apiRes = <<InstalledResponse(CurrentContext)>>


---------------------------------------------------------------------------
(* C35: NOTIFICATION_CHANNEL_OPEN comes first                              *)

\* The frames sent on the channel that carry notification data.
DataFrames(ch) == { i \in DOMAIN ch.sent : ch.sent[i] # notifyChannelOpenMsg }

\* C35: on every channel NOTIFICATION_CHANNEL_OPEN is sent before any frame
\* of notification data, also when the data comes from a dispatch timer
\* another channel of the pair scheduled, or from another channel's
\* immediate dispatch, right after this channel authenticated.
C35_OpenBeforeData ==
    \A c \in ChannelIds :
        DataFrames(channels[c]) # {} =>
            /\ channels[c].sent[1] = notifyChannelOpenMsg
            /\ \A i \in DataFrames(channels[c]) : i > 1

\* A channel whose own send of NOTIFICATION_CHANNEL_OPEN has not completed
\* has received, after it, the data another channel's dispatch sent.
C35_Witness ==
    \E c \in ChannelIds :
        /\ channels[c].sending > 0
        /\ Positions(channels[c], "autoDispatchMessages") = {}
        /\ Len(channels[c].sent) = 2
        /\ channels[c].sent[1] = notifyChannelOpenMsg
        /\ channels[c].sent[2] # notifyChannelOpenMsg


---------------------------------------------------------------------------
(* C36: an authenticated channel ignores what the client sends             *)

\* The frames a client may send after the handshake: each device's
\* authentication frame, one with a wrong signature, one with a number under
\* authorization, a text frame that is no authentication message and a
\* binary frame.
LaterFrames(req) ==
    IndexFrames(req)
    \cup { NumberAuthorizationFrame(Header(Timestamp0)),
           ClientFrame(TRUE, FALSE, AbsentTimestamp, AbsentAuthorization),
           ClientFrame(FALSE, FALSE, AbsentTimestamp, AbsentAuthorization) }

\* The frame would authenticate a channel opened by req.
WouldAuthenticate(req, frame) ==
    ~authenticateFrame([req EXCEPT !.headers.timestamp = frame.timestamp,
                                   !.headers.authorization = frame.authorization],
                       deviceCredentials, clock, frame.typeofAuthorization).failed

\* C36: once a channel is authenticated its deviceId and eventName never
\* change, and every later frame of the client, another authentication frame
\* included, valid or not, of the same device or of another, changes no
\* state of any channel, nothing in the index, sends no frame and closes
\* nothing.
C36_AuthenticatedIgnoresFrames ==
    [][ \A c \in ChannelIds :
          authenticated(channels[c]) =>
            /\ channels'[c].deviceId = channels[c].deviceId
            /\ channels'[c].eventName = channels[c].eventName
            /\ channels[c].readyState \in {"OPEN", "CLOSING"} =>
                 \A frame \in LaterFrames(channels[c].req) :
                    /\ _messageHandler(CurrentWsState, c, frame,
                                       deviceCredentials, clock) = CurrentWsState
                    /\ ClientSends(c, frame) => UNCHANGED wsVars
      ]_vars

\* A channel of Device1 is authenticated and open while the frame of Device2
\* for its request would authenticate, and its own frame would again.
C36_Witness ==
    \E c \in ChannelIds :
        /\ authenticated(channels[c])
        /\ channels[c].readyState = "OPEN"
        /\ channels[c].deviceId = Str(Device1)
        /\ channels[c].sent = <<notifyChannelOpenMsg>>
        /\ WouldAuthenticate(channels[c].req,
               DeviceAuthenticationFrame(channels[c].req, Device2, Secret2))
        /\ WouldAuthenticate(channels[c].req,
               DeviceAuthenticationFrame(channels[c].req, Device1, Secret1))
        /\ ~WouldAuthenticate(channels[c].req,
               DeviceAuthenticationFrame(channels[c].req, Device1, Secret2))


---------------------------------------------------------------------------
(* C37: the index holds each channel under its own key                     *)

\* The sets of the index channel c is a member of, by device and event.
SetsHolding(c) ==
    { <<d, e>> \in (DOMAIN deviceEventNotifyChannels) \X notificationEvents :
        /\ e \in DOMAIN deviceEventNotifyChannels[d]
        /\ c \in deviceEventNotifyChannels[d][e] }

\* C37: every channel in the index is authenticated and in exactly one set,
\* the one keyed by its own deviceId and eventName; a channel that is not
\* authenticated is in no set, and discarding one, as the close of its
\* socket does, leaves the index unchanged.
C37_IndexedUnderOwnKey ==
    [][ \A c \in ChannelIds :
          /\ authenticated(channels[c]) =>
                SetsHolding(c) \subseteq
                    { <<channels[c].deviceId.str, channels[c].eventName>> }
          /\ ~authenticated(channels[c]) =>
                /\ SetsHolding(c) = {}
                /\ discardNotificationChannel(deviceEventNotifyChannels, c, channels[c])
                      = deviceEventNotifyChannels
                /\ SocketCloses(c) => UNCHANGED deviceEventNotifyChannels
      ]_vars

\* The index holds two open channels of one device, each in the set of its
\* own event.
C37_Witness ==
    \E c, b \in ChannelIds :
        /\ channels[c].readyState = "OPEN" /\ channels[b].readyState = "OPEN"
        /\ channels[c].deviceId = channels[b].deviceId
        /\ channels[c].eventName # channels[b].eventName
        /\ SetsHolding(c) = { <<channels[c].deviceId.str, channels[c].eventName>> }
        /\ SetsHolding(b) = { <<channels[b].deviceId.str, channels[b].eventName>> }

\* A channel that never authenticated has closed and the index still holds
\* the other channel.
C37_WitnessDiscarded ==
    \E c, b \in ChannelIds :
        /\ channels[c].readyState = "CLOSED" /\ ~authenticated(channels[c])
        /\ SetsHolding(b) # {}


---------------------------------------------------------------------------
(* C38: a channel the server is closing for a failed handshake             *)

\* The server has sent the close frame of a failed handshake on the channel:
\* a refused or malformed authentication frame, or the deadline.
FailedHandshakeClose(ch) == ch.closed.code \in {1002, 1011}

\* C38: a channel on which the server has initiated the close of a failed
\* handshake is never authenticated, indexed or given a heartbeat timer
\* afterwards, even if a valid authentication frame arrives before the close
\* completes.
C38_ClosingNeverAuthenticated ==
    \A c \in ChannelIds :
        FailedHandshakeClose(channels[c]) =>
            /\ ~authenticated(channels[c])
            /\ Discarded(c)

\* A channel closed by the deadline, its socket still closing, has been
\* authenticated, indexed and given a heartbeat timer by a valid frame.
C38_Witness ==
    \E c \in ChannelIds :
        /\ channels[c].readyState = "CLOSING"
        /\ channels[c].closed
              = CloseFrame(1002, "Failed to receive authentication message")
        /\ authenticated(channels[c])
        /\ Indexed(deviceEventNotifyChannels, c, channels[c])
        /\ ChannelTimer("heartbeat", c, heartbeatInterval) \in timers
        /\ channels[c].sent = <<>>

\* What holds of such a channel: nothing is ever sent on it, and once its
\* socket has closed it is in no set of the index and has no heartbeat timer.
ClosingHandshakeSendsNothing ==
    \A c \in ChannelIds :
        FailedHandshakeClose(channels[c]) =>
            /\ channels[c].sent = <<>>
            /\ channels[c].readyState = "CLOSED" => Discarded(c)


---------------------------------------------------------------------------
(* Pending dispatches: contexts replaced, channels closed and all clients  *)
(* closed while a dispatch timer is pending                                *)

\* Contexts for the device and the event of the channels with two different
\* delayed entries and an immediate one, and a context without an entry for
\* them.
PendingNotifyContextDocs ==
    { NotifyContext("object",
          OneDevice(Device1, OneEvent("new-msg-received", info))) :
        info \in { NotificationMessageInfo(Data1, Timeout(5)),
                   NotificationMessageInfo(Data2, Timeout(7)),
                   NotificationMessageInfo(Data2, Timeout(0)) } }
    \cup { NotifyContext("object",
              OneDevice(Device2,
                  OneEvent("new-msg-received",
                           NotificationMessageInfo(Data2, Timeout(5))))) }

NextPending ==
    \/ ~Observing /\ \E data \in WsCredentialsDocs : SetCredentials(data)
    \/ \E data \in PendingNotifyContextDocs : SetNotifyContext(data)
    \/ \E c \in ChannelIds :
          channels[c].readyState = "none"
              /\ Upgrade(c, UpgradeRequest(UpgradeHttp(NotifyUrl), {notifyWSSubprotocol}))
    \/ \E c \in ChannelIds :
          channels[c].readyState \in {"OPEN", "CLOSING"}
              /\ ClientSends(c, AuthenticationFrame(UpgradeHttp(NotifyUrl), Secret1))
    \/ \E c \in ChannelIds : SendCompletes(c)
    \/ \E c \in ChannelIds : SocketCloses(c)
    \/ \E t \in timers : DispatchTimeout(t)
    \/ cmdPc = "idle" /\ CommandArrives(NotifyCloseCommand)
    \/ CommandForget

SpecPending == Init /\ [][NextPending]_vars

---------------------------------------------------------------------------
(* C39: a pending dispatch keeps its payload and its delay                 *)

\* The dispatch timers set by this step.
TimersSet == { t \in timers' : t.kind = "dispatch" } \ timers

\* The timer carries the data and the timeout the notify context holds for
\* its pair.
CarriesEntry(t) ==
    /\ notifyContext.installed
    /\ t.deviceId \in DOMAIN notifyContext.value.map
    /\ t.eventName \in DOMAIN notifyContext.value.map[t.deviceId]
    /\ t.data = notifyContext.value.map[t.deviceId][t.eventName].data
    /\ t.delay = notifyContext.value.map[t.deviceId][t.eventName].timeout.num

\* The timer t elapses and its data is what every receiver is sent.
DeliversOwnData(t) ==
    \A c \in ChannelIds :
        channels'[c].sent =
            IF c \in Receivers(t.deviceId, t.eventName)
            THEN Append(channels[c].sent, t.data)
            ELSE channels[c].sent

\* C39: the payload and the delay of a delayed dispatch are those of the
\* entry at the moment it is scheduled; replacing the notify context while
\* it is pending changes neither the timer nor what it delivers when it
\* fires, and the new entry is used only by a dispatch scheduled once the
\* pending one has fired or been cancelled.
C39_PendingDispatchFixed ==
    [][ /\ \A t \in TimersSet :
              /\ CarriesEntry(t)
              /\ DispatchKey(t.deviceId, t.eventName) \notin PendingDispatch
        /\ \A k \in PendingDispatch \cap DOMAIN dispatchNotifyMsgTimeouts' :
              dispatchNotifyMsgTimeouts'[k] = dispatchNotifyMsgTimeouts[k]
        /\ notifyContext' # notifyContext =>
              /\ timers' = timers
              /\ dispatchNotifyMsgTimeouts' = dispatchNotifyMsgTimeouts
        /\ \A t \in timers :
              DispatchTimeout(t) => DeliversOwnData(t)
      ]_vars

\* A dispatch is pending with the data and the delay of the entry under
\* which it was scheduled while the notify context holds another entry, with
\* other data and another timeout, for the pair.
C39_Witness ==
    \E t \in timers :
        /\ t.kind = "dispatch"
        /\ t.data = Data1 /\ t.delay = 5
        /\ dispatchNotifyMsgTimeouts[DispatchKey(t.deviceId, t.eventName)] = t
        /\ notifyContext.installed
        /\ t.deviceId \in DOMAIN notifyContext.value.map
        /\ t.eventName \in DOMAIN notifyContext.value.map[t.deviceId]
        /\ ~CarriesEntry(t)
        /\ Delayed(notifyContext.value.map[t.deviceId][t.eventName])

\* A channel has been delivered the data of the first entry, and the
\* dispatch now pending, scheduled by the other channel, carries the entry
\* that replaced it.
C39_WitnessNewEntry ==
    \E c \in ChannelIds : \E t \in timers :
        /\ channels[c].sent = <<notifyChannelOpenMsg, Data1>>
        /\ t.kind = "dispatch" /\ t.channel # c
        /\ t.data = Data2 /\ t.delay = 7
        /\ CarriesEntry(t)


---------------------------------------------------------------------------
(* C40: what cancels a pending dispatch                                    *)

\* The pending dispatches and their timers are as they were.
PendingUnchanged ==
    /\ dispatchNotifyMsgTimeouts' = dispatchNotifyMsgTimeouts
    /\ { t \in timers' : t.kind = "dispatch" } = { t \in timers : t.kind = "dispatch" }

\* C40: a pending dispatch is cancelled only by closeAllClients. The close
\* of the channel that scheduled it, or of every channel of its pair, leaves
\* its entry and its timer; the timer fires once, removes its entry, and
\* delivers to the channels indexed under the pair at that moment, which may
\* be none, or channels that authenticated after it was scheduled.
C40_OnlyCloseAllCancels ==
    [][ /\ \A k \in PendingDispatch \ DOMAIN dispatchNotifyMsgTimeouts' :
              \/ NotifyCloseHandled
              \/ DispatchTimeout(dispatchNotifyMsgTimeouts[k])
        /\ \A c \in ChannelIds : SocketCloses(c) => PendingUnchanged
        /\ \A t \in timers :
              DispatchTimeout(t) =>
                  /\ t \notin timers'
                  /\ DispatchKey(t.deviceId, t.eventName)
                        \notin DOMAIN dispatchNotifyMsgTimeouts'
                  /\ DeliversOwnData(t)
        /\ NotifyCloseHandled /\ serverOn =>
              /\ dispatchNotifyMsgTimeouts' = NoTimeouts
              /\ { t \in timers' : t.kind = "dispatch" } = {}
      ]_vars

\* Every channel of the pair has closed, the one that scheduled the dispatch
\* included, and the dispatch is still pending, its timer armed.
C40_Witness ==
    \E t \in timers :
        /\ t.kind = "dispatch"
        /\ dispatchNotifyMsgTimeouts[DispatchKey(t.deviceId, t.eventName)] = t
        /\ channels[t.channel].readyState = "CLOSED"
        /\ deviceEventNotifyChannels = EmptyIndex

\* The channel that scheduled the dispatch has closed without being sent the
\* data; the other channel, which scheduled nothing, has been sent it, and
\* no dispatch is pending.
C40_WitnessLaterChannel ==
    \E c, d \in ChannelIds :
        /\ channels[d].readyState = "CLOSED"
        /\ Positions(channels[d], "autoDispatchMessages") # {}
        /\ channels[d].sent = <<notifyChannelOpenMsg>>
        /\ Positions(channels[c], "autoDispatchMessages") = {}
        /\ channels[c].sent = <<notifyChannelOpenMsg, Data1>>
        /\ PendingDispatch = {}

\* The pending dispatch has been cancelled by closeAllClients: the channel
\* that scheduled it is closing with 1001 and nothing is pending.
C40_WitnessCancelled ==
    \E d \in ChannelIds :
        /\ channels[d].closed.code = 1001
        /\ channels[d].sent = <<notifyChannelOpenMsg>>
        /\ Positions(channels[d], "autoDispatchMessages") # {}
        /\ HasEntry(d) /\ Delayed(EntryOf(d))
        /\ PendingDispatch = {}
        /\ \A c \in ChannelIds : channels[c].sent \in {<<>>, <<notifyChannelOpenMsg>>}

=============================================================================
